---------------------------- MODULE Spec2Model ----------------------------
(***************************************************************************)
(* Communication Rate Governor (FrequencyTracker) and escalating caregiver *)
(* alert state machine (CaregiverNotificationService) of the caregiving    *)
(* companion app, together with the settings-screen handlers that edit the *)
(* alert configuration.                                                    *)
(*                                                                         *)
(* JavaScript runs one task at a time; an async method is cut at each of   *)
(* its awaits, and every piece between two awaits is one atomic action.    *)
(* CaregiverSettings objects are mutable and shared by reference between   *)
(* the service (this.settings), the settings screen (React state) and the  *)
(* saveSettings calls in flight, so they live in a small heap.             *)
(***************************************************************************)
EXTENDS Integers, Sequences, FiniteSets, TLC

\* ------------------------------------------------------------------ bounds
MaxBlocked == 2      \* blocked records stored in one behaviour
MaxEvals == 2        \* checkAndSendAlerts evaluations in flight at once
MaxSaves == 2        \* AsyncStorage.setItem calls in flight at once
MaxThreshold == 2    \* largest threshold the +/- buttons are followed to
MaxOps == 4          \* AsyncStorage calls of the FrequencyTracker in flight at once
MaxRecords == 2      \* frequency records of a stored history
MaxPerHour == 2      \* largest hourly cap of the sliding-window contacts
MaxMinutes == 122    \* minutes the sliding-window behaviours last
ScenarioMaxPrimary == 5      \* largest primaryThreshold of the block scenario
ScenarioMaxEscalation == 15  \* largest escalationThreshold of the scenario

\* ------------------------------------------------------- program constants
DefaultAlertThreshold == 5
DefaultSecondLevelThreshold == 15
DefaultCallsMaxPerDay == 10
HOUR == 60           \* 60 * 60 * 1000 ms, counted in minutes
DAY == 1440          \* 24 * 60 * 60 * 1000 ms, counted in minutes

EvalIds == 1 .. MaxEvals
Levels == {"primary", "escalation"}
NoTime == 0          \* an undefined timestamp field

\* ------------------------------------------------------- CaregiverSettings
getDefaultSettings ==
  [ phoneNumber           |-> FALSE,
    notificationsEnabled  |-> FALSE,
    smsEnabled            |-> TRUE,
    alertThreshold        |-> DefaultAlertThreshold,
    secondLevelEnabled    |-> FALSE,
    secondLevelThreshold  |-> DefaultSecondLevelThreshold,
    alertStatus           |-> "ready",
    lastResetTimestamp    |-> NoTime,
    primaryAlertSentAt    |-> NoTime,
    escalationAlertSentAt |-> NoTime ]

\* `a || b' on numbers: 0 is falsy
OrElse(a, b) == IF a = 0 THEN b ELSE a

\* a stored string that JSON.parse rejects
Garbled == [ garbled |-> TRUE ]

\* oldSettings[f], where `missing' stands for undefined
Field(oldSettings, f, missing) ==
  IF f \in DOMAIN oldSettings THEN oldSettings[f] ELSE missing

\* variant: the old names of the status are kept
migrateStatusKeepsOld(old) ==
  IF old # "" THEN old
  ELSE getDefaultSettings.alertStatus

migrateStatus(old) ==
  IF old = "none" THEN "ready"
  ELSE IF old = "level1-sent" THEN "alert-sent"
  ELSE IF old = "level2-sent" THEN "escalation-sent"
  ELSE IF old # "" THEN old
  ELSE getDefaultSettings.alertStatus

migrateSettings(oldSettings, t) ==
  LET st == migrateStatus(Field(oldSettings, "alertStatus", ""))
      primaryAlertSentAt == Field(oldSettings, "primaryAlertSentAt", NoTime)
      escalationAlertSentAt == Field(oldSettings, "escalationAlertSentAt", NoTime)
  IN
  [ phoneNumber           |-> Field(oldSettings, "phoneNumber", FALSE),
    notificationsEnabled  |-> Field(oldSettings, "notificationsEnabled", FALSE)
                                \/ getDefaultSettings.notificationsEnabled,
    smsEnabled            |-> Field(oldSettings, "smsEnabled", getDefaultSettings.smsEnabled),
    alertThreshold        |-> OrElse(Field(oldSettings, "alertThreshold", 0),
                                     getDefaultSettings.alertThreshold),
    secondLevelEnabled    |-> Field(oldSettings, "secondLevelEnabled",
                                    getDefaultSettings.secondLevelEnabled),
    secondLevelThreshold  |-> OrElse(Field(oldSettings, "secondLevelThreshold", 0),
                                     getDefaultSettings.secondLevelThreshold),
    alertStatus           |-> st,
    lastResetTimestamp    |-> Field(oldSettings, "lastResetTimestamp", NoTime),
    primaryAlertSentAt    |-> IF st = "alert-sent" /\ primaryAlertSentAt = NoTime
                              THEN t ELSE primaryAlertSentAt,
    escalationAlertSentAt |-> IF st = "escalation-sent" /\ escalationAlertSentAt = NoTime
                              THEN t ELSE escalationAlertSentAt ]

\* --------------------------------------------------------------- variables
VARIABLES
  now,              \* Date.now()
  blockedMessages,  \* FrequencyTracker.blockedMessages (in memory)
  blockedCalls,     \* FrequencyTracker.blockedCalls (in memory)
  storedMessages,   \* AsyncStorage 'blocked_messages'
  storedCalls,      \* AsyncStorage 'blocked_calls'
  heap,             \* the CaregiverSettings objects
  settings,         \* CaregiverNotificationService.settings: object id, 0 = null
  ui,               \* SettingsScreen caregiverSettings state: object id, 0 = null
  stored,           \* AsyncStorage 'caregiver_notification_settings': <<>> or <<s>>
  saves,            \* saveSettings calls waiting for setItem, in call order
  evals,            \* the checkAndSendAlerts invocations
  timers,           \* pending setTimeout callbacks of onCommunicationBlocked
  twilioConfigured, \* TwilioService.isConfigured() after loadConfig()
  sent,             \* messages handed to the gateway per level since the last reset
  fired,            \* alert branches taken per level since the last reset
  threw,            \* an exception escaped checkAndSendAlerts
  records,          \* FrequencyTracker.records (in memory)
  storedRecords,    \* AsyncStorage 'frequency_records'
  ops,              \* AsyncStorage calls of the FrequencyTracker, in call order
  contact,          \* the Contact of the screen that makes the attempts
  allowed,          \* what canCommunicate answered last: << >> or << [type, ok] >>
  attempt,          \* the sendTextMessage / makeCall invocation of the contact screen
  gateway,          \* Twilio: requests of the contact screen received and accepted
  corrupt,          \* the keys of the FrequencyTracker whose stored string does not parse
  test,             \* the 'Send Test' handler of the settings screen
  message           \* the violation lines of the alert message composed last

vars == << now, blockedMessages, blockedCalls, storedMessages, storedCalls,
           heap, settings, ui, stored, saves, evals, timers, twilioConfigured,
           sent, fired, threw, records, storedRecords, ops, contact, allowed,
           attempt, gateway, corrupt, test, message >>

trackerVars == << records, storedRecords, ops, contact, allowed >>

flowVars == << attempt, gateway, corrupt, test, message >>

\* no attempt is under way: isSending / isCalling is false, no Alert is up
IdleAttempt == [ pc |-> "idle", type |-> "none", ok |-> FALSE, shown |-> "none" ]

\* 'Send Test' has not been pressed; `found' remembers the AlertState in
\* memory and in storage at the moment it is pressed
IdleTest == [ pc |-> "idle", eval |-> 0, found |-> << >> ]

\* the contact screen is idle, Twilio has seen no request of it, the three
\* stored strings parse and no test alert is under way
FlowIdle ==
  /\ attempt = IdleAttempt
  /\ gateway = [ placed |-> 0, carried |-> 0 ]
  /\ corrupt = { }
  /\ test = IdleTest
  /\ message = << >>

governorVars == << blockedMessages, blockedCalls, storedMessages, storedCalls >>

\* -------------------------------------------------------------------- heap
MaxObjs == MaxSaves + 3
ObjIds == 1 .. MaxObjs

Roots(s, u, q) == ({s, u} \cup {q[i].obj : i \in 1 .. Len(q)}) \ {0}

\* the least object id no reference holds
NewObj(s, u, q) == CHOOSE i \in ObjIds \ Roots(s, u, q) :
                     \A j \in ObjIds \ Roots(s, u, q) : i <= j

\* unreferenced objects are garbage
Collect(h, s, u, q) ==
  [ i \in ObjIds |-> IF i \in Roots(s, u, q) THEN h[i] ELSE getDefaultSettings ]

S == heap[settings]     \* *this.settings

\* an invocation: where it is suspended, the branch it took, the status and
\* the count it read, whether it called sendSMS and what sendSMS answered; an
\* idle slot that keeps `seen' is the last invocation that took no branch
IdleEval == [ pc |-> "idle", level |-> "none", seen |-> "none", today |-> 0,
              handed |-> FALSE, outcome |-> "none" ]

InFlight(e) == evals[e].pc # "idle"

\* invocations are interchangeable: a new one takes the first free slot
FreeSlot(e) == evals[e].pc = "idle" /\ \A f \in EvalIds : f < e => evals[f].pc # "idle"


\* ------------------------------------------------------- FrequencyTracker
BlockedRecord(t) == [ id |-> t, timestamp |-> t ]

\* variant: a record exactly 24 hours old still counts
RecentCountInclusive(l, t) == Cardinality({ i \in 1 .. Len(l) : l[i].timestamp >= t - DAY })

\* number of records of list l newer than 24 hours
RecentCount(l, t) == Cardinality({ i \in 1 .. Len(l) : l[i].timestamp > t - DAY })

\* variant: blocked calls are left out of the count
getTodayBlockedCountMessagesOnly(messages, calls, t) == RecentCount(messages, t)

getTodayBlockedCount(messages, calls, t) == RecentCount(messages, t) + RecentCount(calls, t)

TotalBlocked == Len(storedMessages) + Len(storedCalls)

\* storeBlockedMessage after the flow's loadRecords: push, then saveRecords
storeBlockedMessage ==
  /\ blockedMessages' = Append(storedMessages, BlockedRecord(now))
  /\ blockedCalls' = storedCalls
  /\ storedMessages' = blockedMessages'
  /\ storedCalls' = blockedCalls'

storeBlockedCall ==
  /\ blockedCalls' = Append(storedCalls, BlockedRecord(now))
  /\ blockedMessages' = storedMessages
  /\ storedCalls' = blockedCalls'
  /\ storedMessages' = blockedMessages'

\* ------------------------------------------------------ Contact and quota
FrequencySettings(maxPerHour, maxPerDay, enabled) ==
  [ maxPerHour |-> maxPerHour, maxPerDay |-> maxPerDay, enabled |-> enabled ]

\* ContactFrequencySettings; quietHours is << >> when undefined, a time
\* string "HH:MM" is the pair << HH, MM >>
ContactFrequencySettings(calls, texts, quietHours) ==
  [ calls |-> calls, texts |-> texts, quietHours |-> quietHours ]

QuietHours(start, end) == << [ start |-> start, end |-> end ] >>

\* a Contact; frequencySettings is << >> when undefined
Contact(id, frequencySettings) == [ id |-> id, frequencySettings |-> frequencySettings ]

NoContact == Contact(1, << >>)

\* what canCommunicate answered for an attempt of kind `type'
Answer(type, ok) == << [ type |-> type, ok |-> ok ] >>

FrequencyRecord(contactId, type, t) ==
  [ contactId |-> contactId, type |-> type, timestamp |-> t ]

\* split(':').map(Number), hours * 100 + minutes
parseTime(timeString) == timeString[1] * 100 + timeString[2]

\* now.getHours() * 100 + now.getMinutes()
currentTimeOf(t) == ((t % DAY) \div HOUR) * 100 + (t % HOUR)

\* variant: the window never wraps midnight
isQuietHoursNoWrap(fs, t) ==
  IF fs.quietHours = << >> THEN FALSE
  ELSE LET currentTime == currentTimeOf(t)
           startTime == parseTime(fs.quietHours[1].start)
           endTime == parseTime(fs.quietHours[1].end)
       IN currentTime >= startTime /\ currentTime <= endTime

isQuietHours(fs, t) ==
  IF fs.quietHours = << >> THEN FALSE
  ELSE LET currentTime == currentTimeOf(t)
           startTime == parseTime(fs.quietHours[1].start)
           endTime == parseTime(fs.quietHours[1].end)
       IN IF startTime > endTime
          THEN currentTime >= startTime \/ currentTime <= endTime
          ELSE currentTime >= startTime /\ currentTime <= endTime

\* variant: a record exactly one day old is kept
WithinDayInclusive(r, t) == r.timestamp >= t - DAY

\* variant: a record exactly one hour old still counts
WithinHourInclusive(r, t) == r.timestamp >= t - HOUR

\* `record.timestamp > oneHourAgo'
WithinHour(r, t) == r.timestamp > t - HOUR

\* `record.timestamp > oneDayAgo'
WithinDay(r, t) == r.timestamp > t - DAY

\* variant: the records of the contact's other kind count too
SameContactAnyKind(r, c, type) == r.contactId = c.id

\* `record.contactId === contact.id && record.type === type'
SameContactAndKind(r, c, type) == r.contactId = c.id /\ r.type = type

\* variant: the `enabled' flag of the sub-quota is not looked at
ExemptNever(typeSettings) == FALSE

\* `!typeSettings.enabled'
Exempt(typeSettings) == ~ typeSettings.enabled

\* variant: quiet hours are not consulted
canCommunicateNoQuietHours(recs, c, type, t) ==
  IF c.frequencySettings = << >> THEN TRUE
  ELSE LET fs == c.frequencySettings[1]
           typeSettings == IF type = "call" THEN fs.calls ELSE fs.texts
           Recent(r) == SameContactAndKind(r, c, type)
           hourlyCount == Cardinality({ i \in 1 .. Len(recs) :
                                          Recent(recs[i]) /\ WithinHour(recs[i], t) })
           dailyCount == Cardinality({ i \in 1 .. Len(recs) :
                                         Recent(recs[i]) /\ WithinDay(recs[i], t) })
       IN IF Exempt(typeSettings) THEN TRUE
          ELSE hourlyCount < typeSettings.maxPerHour /\ dailyCount < typeSettings.maxPerDay

canCommunicate(recs, c, type, t) ==
  IF c.frequencySettings = << >> THEN TRUE
  ELSE LET fs == c.frequencySettings[1]
           typeSettings == IF type = "call" THEN fs.calls ELSE fs.texts
           Recent(r) == SameContactAndKind(r, c, type)
           hourlyCount == Cardinality({ i \in 1 .. Len(recs) :
                                          Recent(recs[i]) /\ WithinHour(recs[i], t) })
           dailyCount == Cardinality({ i \in 1 .. Len(recs) :
                                         Recent(recs[i]) /\ WithinDay(recs[i], t) })
       IN IF Exempt(typeSettings) THEN TRUE
          ELSE IF isQuietHours(fs, t) THEN FALSE
          ELSE hourlyCount < typeSettings.maxPerHour /\ dailyCount < typeSettings.maxPerDay

\* the filter of cleanupOldRecords
cleanupOldRecords(recs, t) == SelectSeq(recs, LAMBDA r : WithinDay(r, t))

\* ------------------------------------------- CaregiverNotificationService
\* variant: the blocked attempt arms no timer
onCommunicationBlockedDrops == timers' = timers

\* onCommunicationBlocked: every call arms its own one-second timer
onCommunicationBlocked == timers' = timers + 1

\* sendTextMessage / makeCall when canCommunicate answers false
Blocked(limit) ==
  /\ TotalBlocked < limit
  /\ storeBlockedMessage \/ storeBlockedCall
  /\ onCommunicationBlocked
  /\ UNCHANGED << trackerVars, flowVars, now, heap, settings, ui, stored, saves, evals, twilioConfigured,
                  sent, fired, threw >>

BlockedAttempt == Blocked(MaxBlocked)

\* variant: the branches forget the alertStatus tests
AlertBranchNoBreaker(s, todayBlocked) ==
  IF s.secondLevelEnabled /\ todayBlocked >= s.secondLevelThreshold
  THEN "escalation"
  ELSE IF todayBlocked >= s.alertThreshold
  THEN "primary"
  ELSE "none"

\* variant: the escalation branch is taken from any status
AlertBranchAnyStatus(s, todayBlocked) ==
  IF s.secondLevelEnabled /\ todayBlocked >= s.secondLevelThreshold
  THEN "escalation"
  ELSE IF todayBlocked >= s.alertThreshold /\ s.alertStatus = "ready"
  THEN "primary"
  ELSE "none"

\* the if / else-if of checkAndSendAlerts
AlertBranch(s, todayBlocked) ==
  IF s.secondLevelEnabled /\ todayBlocked >= s.secondLevelThreshold
     /\ s.alertStatus = "alert-sent"
  THEN "escalation"
  ELSE IF todayBlocked >= s.alertThreshold /\ s.alertStatus = "ready"
  THEN "primary"
  ELSE "none"

\* variant: the message is handed on whether or not a phone number is set
DeliverableWithoutPhone(s) == s.smsEnabled

\* sendPrimaryAlert / sendEscalationAlert hand the message on only if
\* smsEnabled and a phone number is configured
Deliverable(s) == s.smsEnabled /\ s.phoneNumber

\* the assignments that follow the awaited send
Stamp(s, level, t) ==
  IF level = "escalation"
  THEN [ s EXCEPT !.alertStatus = "escalation-sent", !.escalationAlertSentAt = t ]
  ELSE [ s EXCEPT !.alertStatus = "alert-sent", !.primaryAlertSentAt = t ]

\* loadSettings: parse and migrate what is stored, defaults if nothing is
\* stored or if the parse throws
loadSettings == IF stored = << >> THEN getDefaultSettings
                ELSE IF stored[1] = Garbled THEN getDefaultSettings
                ELSE migrateSettings(stored[1], now)

\* variant: sendSMSAlert lets the error of sendSMS through
sendSMSAlertRethrows == FALSE

\* the catch block of sendSMSAlert swallows a failed send
sendSMSAlertCatches == TRUE

\* the counters stop at 2, which stands for `more than once'
Bump(c, level) == [ c EXCEPT ![level] = IF @ = 0 THEN 1 ELSE 2 ]
NoCount == [ l \in Levels |-> 0 ]

\* variant: the evaluation does not look at notificationsEnabled
notificationsOnIgnored(s) == TRUE

\* the test of `!this.settings?.notificationsEnabled'
notificationsOn(s) == s.notificationsEnabled

\* the setTimeout callback: checkAndSendAlerts up to `await loadRecords()';
\* a slot with outcome "disabled" is an invocation that returned at once
StartEval(e) ==
  /\ FreeSlot(e)
  /\ LET o == IF settings = 0 THEN NewObj(settings, ui, saves) ELSE settings
         h == IF settings = 0 THEN [ heap EXCEPT ![o] = loadSettings ] ELSE heap
     IN /\ settings' = o
        /\ heap' = h
        /\ evals' = [ evals EXCEPT ![e] =
                        IF notificationsOn(h[o])
                        THEN [ IdleEval EXCEPT !.pc = "loadRecords" ]
                        ELSE [ IdleEval EXCEPT !.outcome = "disabled" ] ]

\* a caller invokes checkAndSendAlerts itself
checkAndSendAlerts ==
  /\ \E e \in EvalIds : StartEval(e)
  /\ UNCHANGED << trackerVars, flowVars, now, governorVars, ui, stored, saves, timers, twilioConfigured,
                  sent, fired, threw >>

TimerFires ==
  /\ timers > 0
  /\ \E e \in EvalIds : StartEval(e)
  /\ timers' = timers - 1
  /\ UNCHANGED << trackerVars, flowVars, now, governorVars, ui, stored, saves, twilioConfigured,
                  sent, fired, threw >>

\* The send has returned to checkAndSendAlerts (no macrotask runs between the
\* return and these statements): advance the status, stamp it, call
\* saveSettings, which serialises the object at once, and wait for setItem.
Marked(e, ev) ==
  /\ Len(saves) < MaxSaves
  /\ heap' = [ heap EXCEPT ![settings] = Stamp(@, ev.level, now) ]
  /\ saves' = Append(saves, [ val |-> heap'[settings], obj |-> settings, owner |-> e ])
  /\ evals' = [ evals EXCEPT ![e] = [ ev EXCEPT !.pc = "saving" ] ]

\* loadRecords has resolved: count, choose the branch, enter the send; the
\* send returns at once when SMS is off or no phone number is set
Evaluate(e) ==
  /\ evals[e].pc = "loadRecords"
  /\ blockedMessages' = storedMessages
  /\ blockedCalls' = storedCalls
  /\ LET todayBlocked == getTodayBlockedCount(storedMessages, storedCalls, now)
         level == AlertBranch(S, todayBlocked)
         ev == [ pc |-> "loadConfig", level |-> level, seen |-> S.alertStatus,
                 today |-> todayBlocked, handed |-> FALSE, outcome |-> "none" ]
     IN /\ fired' = IF level = "none" THEN fired ELSE Bump(fired, level)
        /\ IF level = "none"
           THEN /\ evals' = [ evals EXCEPT ![e] =
                                [ IdleEval EXCEPT !.seen = S.alertStatus ] ]
                /\ UNCHANGED << heap, saves >>
           ELSE IF Deliverable(S)
           THEN /\ evals' = [ evals EXCEPT ![e] = ev ]
                /\ UNCHANGED << heap, saves >>
           ELSE Marked(e, ev)
  /\ UNCHANGED << trackerVars, flowVars, now, storedMessages, storedCalls, settings, ui, stored,
                  timers, twilioConfigured, sent, threw >>

\* TwilioService.loadConfig has resolved: sendSMS is called if Twilio is
\* configured, otherwise sendSMSAlert returns
HandToGateway(e) ==
  /\ evals[e].pc = "loadConfig"
  /\ IF twilioConfigured
     THEN /\ evals' = [ evals EXCEPT ![e].pc = "sending", ![e].handed = TRUE ]
          /\ sent' = Bump(sent, evals[e].level)
          /\ UNCHANGED << heap, saves >>
     ELSE /\ Marked(e, evals[e])
          /\ sent' = sent
  /\ UNCHANGED << trackerVars, flowVars, now, governorVars, settings, ui, stored, timers,
                  twilioConfigured, fired, threw >>

\* the gateway answers: sendSMS resolves, or throws and sendSMSAlert catches
GatewayReplies(e) ==
  /\ evals[e].pc = "sending"
  /\ \E ok \in BOOLEAN :
       IF ok \/ sendSMSAlertCatches
       THEN /\ Marked(e, [ evals[e] EXCEPT !.outcome = IF ok THEN "ok" ELSE "failed" ])
            /\ threw' = threw
       ELSE /\ evals' = [ evals EXCEPT ![e] = IdleEval ]
            /\ threw' = TRUE
            /\ UNCHANGED << heap, saves >>
  /\ UNCHANGED << trackerVars, flowVars, now, governorVars, settings, ui, stored, timers,
                  twilioConfigured, sent, fired >>

\* saveSettings: the oldest setItem resolves (the object passed becomes
\* this.settings) or rejects (logged); owner 0 is resetAlerts,
\* -2 resetPrimaryAlert, -3 resetEscalationAlert, -1 the settings screen
Settle(ok) ==
  /\ saves # << >>
  /\ LET call == Head(saves)
         s2 == IF ok THEN call.obj ELSE settings
         u2 == IF call.owner = -1 THEN call.obj ELSE ui
     IN /\ stored' = IF ok THEN << call.val >> ELSE stored
        /\ settings' = s2
        /\ ui' = u2
        /\ saves' = Tail(saves)
        /\ heap' = Collect(heap, s2, u2, Tail(saves))
        /\ evals' = IF call.owner \in EvalIds
                    THEN [ evals EXCEPT ![call.owner] = IdleEval ]
                    ELSE evals
  /\ UNCHANGED << trackerVars, flowVars, now, governorVars, timers, twilioConfigured, sent, fired, threw >>

SaveSettles == Settle(TRUE)

SaveFails == Settle(FALSE)

\* variant: the reset stamps and clears but leaves alertStatus as it is
resetAlertsKeepsStatus ==
  /\ Len(saves) < MaxSaves
  /\ LET o == IF settings = 0 THEN NewObj(settings, ui, saves) ELSE settings
         h == IF settings = 0 THEN [ heap EXCEPT ![o] = loadSettings ] ELSE heap
     IN /\ settings' = o
        /\ heap' = [ h EXCEPT ![o] = [ @ EXCEPT !.lastResetTimestamp = now,
                                                 !.primaryAlertSentAt = NoTime,
                                                 !.escalationAlertSentAt = NoTime ] ]
        /\ saves' = Append(saves, [ val |-> heap'[o], obj |-> o, owner |-> 0 ])
  /\ sent' = [ l \in Levels |-> 0 ]
  /\ fired' = [ l \in Levels |-> 0 ]
  /\ UNCHANGED << trackerVars, flowVars, now, governorVars, ui, stored, evals, timers, twilioConfigured, threw >>

\* variant: the reset leaves lastResetTimestamp as it is
resetAlertsUnstamped ==
  /\ Len(saves) < MaxSaves
  /\ LET o == IF settings = 0 THEN NewObj(settings, ui, saves) ELSE settings
         h == IF settings = 0 THEN [ heap EXCEPT ![o] = loadSettings ] ELSE heap
     IN /\ settings' = o
        /\ heap' = [ h EXCEPT ![o] = [ @ EXCEPT !.alertStatus = "ready",
                                                 !.primaryAlertSentAt = NoTime,
                                                 !.escalationAlertSentAt = NoTime ] ]
        /\ saves' = Append(saves, [ val |-> heap'[o], obj |-> o, owner |-> 0 ])
  /\ sent' = NoCount
  /\ fired' = NoCount
  /\ UNCHANGED << trackerVars, flowVars, now, governorVars, ui, stored, evals, timers, twilioConfigured, threw >>

\* resetAlerts up to `await saveSettings'; settings are loaded first if null
resetAlerts ==
  /\ Len(saves) < MaxSaves
  /\ LET o == IF settings = 0 THEN NewObj(settings, ui, saves) ELSE settings
         h == IF settings = 0 THEN [ heap EXCEPT ![o] = loadSettings ] ELSE heap
     IN /\ settings' = o
        /\ heap' = [ h EXCEPT ![o] = [ @ EXCEPT !.alertStatus = "ready",
                                                 !.lastResetTimestamp = now,
                                                 !.primaryAlertSentAt = NoTime,
                                                 !.escalationAlertSentAt = NoTime ] ]
        /\ saves' = Append(saves, [ val |-> heap'[o], obj |-> o, owner |-> 0 ])
  /\ sent' = NoCount
  /\ fired' = NoCount
  /\ UNCHANGED << trackerVars, flowVars, now, governorVars, ui, stored, evals, timers, twilioConfigured, threw >>

\* resetPrimaryAlert: only from 'alert-sent'
resetPrimaryAlert ==
  /\ Len(saves) < MaxSaves
  /\ LET o == IF settings = 0 THEN NewObj(settings, ui, saves) ELSE settings
         h == IF settings = 0 THEN [ heap EXCEPT ![o] = loadSettings ] ELSE heap
     IN /\ settings' = o
        /\ IF h[o].alertStatus = "alert-sent"
           THEN /\ heap' = [ h EXCEPT ![o] = [ @ EXCEPT !.alertStatus = "ready",
                                                        !.primaryAlertSentAt = NoTime ] ]
                /\ saves' = Append(saves, [ val |-> heap'[o], obj |-> o, owner |-> -2 ])
                /\ sent' = [ sent EXCEPT !["primary"] = 0 ]
                /\ fired' = [ fired EXCEPT !["primary"] = 0 ]
           ELSE /\ heap' = h
                /\ UNCHANGED << saves, sent, fired >>
  /\ UNCHANGED << trackerVars, flowVars, now, governorVars, ui, stored, evals, timers, twilioConfigured, threw >>

\* variant: resetEscalationAlert re-arms the whole breaker
resetEscalationAlertToReady ==
  /\ Len(saves) < MaxSaves
  /\ LET o == IF settings = 0 THEN NewObj(settings, ui, saves) ELSE settings
         h == IF settings = 0 THEN [ heap EXCEPT ![o] = loadSettings ] ELSE heap
     IN /\ settings' = o
        /\ IF h[o].alertStatus = "escalation-sent"
           THEN /\ heap' = [ h EXCEPT ![o] = [ @ EXCEPT !.alertStatus = "ready",
                                                        !.escalationAlertSentAt = NoTime ] ]
                /\ saves' = Append(saves, [ val |-> heap'[o], obj |-> o, owner |-> -3 ])
                /\ sent' = [ sent EXCEPT !["escalation"] = 0 ]
                /\ fired' = [ fired EXCEPT !["escalation"] = 0 ]
           ELSE /\ heap' = h
                /\ UNCHANGED << saves, sent, fired >>
  /\ UNCHANGED << trackerVars, flowVars, now, governorVars, ui, stored, evals, timers, twilioConfigured, threw >>

\* variant: resetEscalationAlert without the test of alertStatus
resetEscalationAlertUnguarded ==
  /\ Len(saves) < MaxSaves
  /\ LET o == IF settings = 0 THEN NewObj(settings, ui, saves) ELSE settings
         h == IF settings = 0 THEN [ heap EXCEPT ![o] = loadSettings ] ELSE heap
     IN /\ settings' = o
        /\ heap' = [ h EXCEPT ![o] = [ @ EXCEPT !.alertStatus = "alert-sent",
                                                 !.escalationAlertSentAt = NoTime ] ]
        /\ saves' = Append(saves, [ val |-> heap'[o], obj |-> o, owner |-> -3 ])
        /\ sent' = [ sent EXCEPT !["escalation"] = 0 ]
        /\ fired' = [ fired EXCEPT !["escalation"] = 0 ]
  /\ UNCHANGED << trackerVars, flowVars, now, governorVars, ui, stored, evals, timers, twilioConfigured, threw >>

\* resetEscalationAlert: only from 'escalation-sent', back to 'alert-sent'
resetEscalationAlert ==
  /\ Len(saves) < MaxSaves
  /\ LET o == IF settings = 0 THEN NewObj(settings, ui, saves) ELSE settings
         h == IF settings = 0 THEN [ heap EXCEPT ![o] = loadSettings ] ELSE heap
     IN /\ settings' = o
        /\ IF h[o].alertStatus = "escalation-sent"
           THEN /\ heap' = [ h EXCEPT ![o] = [ @ EXCEPT !.alertStatus = "alert-sent",
                                                        !.escalationAlertSentAt = NoTime ] ]
                /\ saves' = Append(saves, [ val |-> heap'[o], obj |-> o, owner |-> -3 ])
                /\ sent' = [ sent EXCEPT !["escalation"] = 0 ]
                /\ fired' = [ fired EXCEPT !["escalation"] = 0 ]
           ELSE /\ heap' = h
                /\ UNCHANGED << saves, sent, fired >>
  /\ UNCHANGED << trackerVars, flowVars, now, governorVars, ui, stored, evals, timers, twilioConfigured, threw >>

\* ---------------------------------------------------------- SettingsScreen
\* loadCaregiverSettings: the screen keeps the object loadSettings returns
loadCaregiverSettings ==
  /\ LET o == NewObj(settings, ui, saves)
     IN /\ settings' = o
        /\ ui' = o
        /\ heap' = Collect([ heap EXCEPT ![o] = loadSettings ], o, o, saves)
  /\ blockedMessages' = storedMessages
  /\ blockedCalls' = storedCalls
  /\ UNCHANGED << trackerVars, flowVars, now, storedMessages, storedCalls, stored, saves, evals, timers,
                  twilioConfigured, sent, fired, threw >>

Max(a, b) == IF a >= b THEN a ELSE b

EditKinds == { "notifyOn", "notifyOff", "level1Minus", "level1Plus",
               "level2On", "level2Off", "level2Minus", "level2Plus" }

\* which control is on screen for the settings object c
EditShown(k, c) ==
  IF k \in {"notifyOn", "notifyOff"} THEN TRUE
  ELSE IF k \in {"level2Minus", "level2Plus"}
       THEN c.notificationsEnabled /\ c.secondLevelEnabled
       ELSE c.notificationsEnabled

\* the object literal each onPress handler passes to updateCaregiverSettings
Edited(k, c) ==
  CASE k = "notifyOn"    -> [ c EXCEPT !.notificationsEnabled = TRUE ]
    [] k = "notifyOff"   -> [ c EXCEPT !.notificationsEnabled = FALSE ]
    [] k = "level1Minus" -> [ c EXCEPT !.alertThreshold = Max(1, c.alertThreshold - 1) ]
    [] k = "level1Plus"  -> [ c EXCEPT !.alertThreshold = c.alertThreshold + 1 ]
    [] k = "level2On"    -> [ c EXCEPT !.secondLevelEnabled = TRUE ]
    [] k = "level2Off"   -> [ c EXCEPT !.secondLevelEnabled = FALSE ]
    [] k = "level2Minus" -> [ c EXCEPT !.secondLevelThreshold =
                                Max(c.alertThreshold + 1,
                                    OrElse(c.secondLevelThreshold, DefaultSecondLevelThreshold) - 1) ]
    [] k = "level2Plus"  -> [ c EXCEPT !.secondLevelThreshold =
                                OrElse(c.secondLevelThreshold, DefaultSecondLevelThreshold) + 1 ]

\* updateCaregiverSettings up to `await saveSettings(newSettings)'
updateCaregiverSettings ==
  /\ ui # 0
  /\ Len(saves) < MaxSaves
  /\ \E k \in EditKinds :
       /\ EditShown(k, heap[ui])
       /\ LET c == Edited(k, heap[ui])
              o == NewObj(settings, ui, saves)
          IN /\ c.alertThreshold <= MaxThreshold
             /\ c.secondLevelThreshold <= MaxThreshold
             /\ heap' = [ heap EXCEPT ![o] = c ]
             /\ saves' = Append(saves, [ val |-> c, obj |-> o, owner |-> -1 ])
  /\ UNCHANGED << trackerVars, flowVars, now, governorVars, settings, ui, stored, evals, timers,
                  twilioConfigured, sent, fired, threw >>

\* testNotification, 'Send Test' pressed: a copy of the screen's settings
\* with alertThreshold 0 goes to saveSettings (owner -4)
testNotification ==
  /\ test.pc = "idle"
  /\ ui # 0
  /\ heap[ui].phoneNumber
  /\ Len(saves) < MaxSaves
  /\ LET o == NewObj(settings, ui, saves)
     IN /\ heap' = [ heap EXCEPT ![o] = [ heap[ui] EXCEPT !.alertThreshold = 0 ] ]
        /\ saves' = Append(saves, [ val |-> heap'[o], obj |-> o, owner |-> -4 ])
  /\ test' = [ pc |-> "forcing", eval |-> 0,
                found |-> << IF settings = 0 THEN loadSettings ELSE S, stored[1] >> ]
  /\ UNCHANGED << trackerVars, attempt, gateway, corrupt, message, now, governorVars, settings, ui,
                  stored, evals, timers, twilioConfigured, sent, fired, threw >>

\* the first saveSettings has returned: checkAndSendAlerts is called
TestChecks ==
  /\ test.pc = "forcing"
  /\ \A i \in 1 .. Len(saves) : saves[i].owner # -4
  /\ \E e \in EvalIds : StartEval(e) /\ test' = [ test EXCEPT !.pc = "checking", !.eval = e ]
  /\ UNCHANGED << trackerVars, attempt, gateway, corrupt, message, now, governorVars, ui, stored,
                  saves, timers, twilioConfigured, sent, fired, threw >>

\* variant: the object the evaluation worked on is saved again
TestRestoresCurrent ==
  /\ test.pc = "checking"
  /\ ~ InFlight(test.eval)
  /\ Len(saves) < MaxSaves
  /\ saves' = Append(saves, [ val |-> S, obj |-> settings, owner |-> -5 ])
  /\ test' = [ test EXCEPT !.pc = "restoring" ]
  /\ UNCHANGED << trackerVars, attempt, gateway, corrupt, message, now, governorVars, heap, settings,
                  ui, stored, evals, timers, twilioConfigured, sent, fired, threw >>

\* checkAndSendAlerts has returned: the screen's own settings object goes
\* to saveSettings (owner -5)
TestRestores ==
  /\ test.pc = "checking"
  /\ ~ InFlight(test.eval)
  /\ Len(saves) < MaxSaves
  /\ saves' = Append(saves, [ val |-> heap[ui], obj |-> ui, owner |-> -5 ])
  /\ test' = [ test EXCEPT !.pc = "restoring" ]
  /\ UNCHANGED << trackerVars, attempt, gateway, corrupt, message, now, governorVars, heap, settings,
                  ui, stored, evals, timers, twilioConfigured, sent, fired, threw >>

\* the second saveSettings has returned: Alert 'Test Sent'
TestSent ==
  /\ test.pc = "restoring"
  /\ \A i \in 1 .. Len(saves) : saves[i].owner # -5
  /\ test' = [ test EXCEPT !.pc = "done" ]
  /\ UNCHANGED << trackerVars, attempt, gateway, corrupt, message, now, governorVars, heap, settings,
                  ui, stored, saves, evals, timers, twilioConfigured, sent, fired, threw >>

\* ------------------------------------------------- the text of an alert
\* one line of the violation list: `${time}: Blocked call' for a call,
\* `${time}: "${preview}"' for a text
Violation(kind, r) == [ kind |-> kind, timestamp |-> r.timestamp ]

\* violations.sort() compares the lines as strings: the two-digit clock time
\* first, then the rest of the line, where `"' sorts before `B'
LineKey(v) == 2 * (v.timestamp % DAY) + (IF v.kind = "call" THEN 1 ELSE 0)

\* Array.prototype.slice(-n)
LastOf(q, n) == IF Len(q) <= n THEN q ELSE SubSeq(q, Len(q) - n + 1, Len(q))

\* Array.prototype.sort(): ascending and stable
RECURSIVE SortLines(_)
SortLines(q) ==
  IF q = << >> THEN << >>
  ELSE LET x == q[Len(q)]
           front == SortLines(SubSeq(q, 1, Len(q) - 1))
       IN SelectSeq(front, LAMBDA y : LineKey(y) <= LineKey(x)) \o << x >> \o
          SelectSeq(front, LAMBDA y : LineKey(y) > LineKey(x))

\* getRecentViolations: the last three blocked texts and the last three
\* blocked calls of the last 24 hours, calls pushed first, sorted as strings,
\* of which the last five are joined
getRecentViolations(messages, calls, t) ==
  LET todayMessages == LastOf(SelectSeq(messages, LAMBDA r : r.timestamp > t - DAY), 3)
      todayCalls == LastOf(SelectSeq(calls, LAMBDA r : r.timestamp > t - DAY), 3)
      violations == [ i \in 1 .. Len(todayCalls) |-> Violation("call", todayCalls[i]) ] \o
                    [ i \in 1 .. Len(todayMessages) |-> Violation("text", todayMessages[i]) ]
  IN LastOf(SortLines(violations), 5)

\* sendPrimaryAlert / sendEscalationAlert up to the test of smsEnabled: the
\* message is composed from the lists the evaluation has just loaded
sendPrimaryAlert ==
  /\ message' = << getRecentViolations(blockedMessages, blockedCalls, now) >>
  /\ UNCHANGED << now, governorVars, heap, settings, ui, stored, saves, evals, timers,
                  twilioConfigured, sent, fired, threw, trackerVars, attempt, gateway,
                  corrupt, test >>

\* ----------------------------------------- FrequencyTracker, await by await
\* An AsyncStorage call in flight: getItem or setItem of key 1
\* ('frequency_records'), 2 ('blocked_messages') or 3 ('blocked_calls').  A
\* getItem carries what its loadRecords has read so far, a setItem the string
\* it was given; `flow' is what the caller does when the method returns.
\* The native module serves the calls in call order.
GetItem(key, got, flow) ==
  [ kind |-> "get", key |-> key, val |-> << >>, got |-> got, flow |-> flow ]

SetItem(key, val, flow) ==
  [ kind |-> "set", key |-> key, val |-> val, got |-> << >>, flow |-> flow ]

Item(key) == CASE key = 1 -> storedRecords
               [] key = 2 -> storedMessages
               [] key = 3 -> storedCalls

coordinatorVars == << heap, settings, ui, stored, saves, evals, twilioConfigured,
                      sent, fired, threw >>

\* loadRecords is called: its first getItem goes out
loadRecords(flow) ==
  /\ Len(ops) < MaxOps
  /\ ops' = Append(ops, GetItem(1, << >>, flow))

\* sendTextMessage / makeCall up to `await frequencyTracker.loadRecords()';
\* the button is disabled while an attempt is under way
Attempt(type) ==
  /\ \A i \in 1 .. Len(ops) : ops[i].flow \in {"view", "none"}
  /\ Len(storedRecords) + TotalBlocked < MaxBlocked + 1
  /\ loadRecords(type)
  /\ UNCHANGED << now, governorVars, coordinatorVars, timers, records,
                  storedRecords, contact, allowed, flowVars >>

\* the timer of onCommunicationBlocked: checkAndSendAlerts up to
\* `await frequencyTracker.loadRecords()'; what the evaluation does with the
\* lists afterwards is left to the specifications above
TimerLoads ==
  /\ timers > 0
  /\ timers' = timers - 1
  /\ loadRecords("view")
  /\ UNCHANGED << now, governorVars, coordinatorVars, records, storedRecords,
                  contact, allowed, flowVars >>

\* the last getItem of a loadRecords resolves: the three lists are assigned,
\* cleanupOldRecords filters and starts a saveRecords nobody awaits, and the
\* caller goes on: canCommunicate, then storeBlockedMessage / storeBlockedCall
\* up to the first setItem of their saveRecords, or recordCommunication
LoadResolves(op, rest) ==
  LET r == cleanupOldRecords(op.got[1], now)
      m == op.got[2]
      c == Item(3)
      cleanupSave == SetItem(1, r, "none")
      ok == canCommunicate(r, contact, op.flow, now)
  IN IF op.flow = "view"
     THEN /\ records' = r
          /\ blockedMessages' = m
          /\ blockedCalls' = c
          /\ ops' = Append(rest, cleanupSave)
          /\ allowed' = allowed
     ELSE IF ok
     THEN /\ records' = Append(r, FrequencyRecord(contact.id, op.flow, now))
          /\ blockedMessages' = m
          /\ blockedCalls' = c
          /\ ops' = rest \o << cleanupSave, SetItem(1, records', "recorded") >>
          /\ allowed' = Answer(op.flow, TRUE)
     ELSE /\ records' = r
          /\ blockedMessages' = IF op.flow = "text" THEN Append(m, BlockedRecord(now)) ELSE m
          /\ blockedCalls' = IF op.flow = "call" THEN Append(c, BlockedRecord(now)) ELSE c
          /\ ops' = rest \o << cleanupSave, SetItem(1, r, "blocked") >>
          /\ allowed' = Answer(op.flow, FALSE)

\* the oldest AsyncStorage call of the FrequencyTracker resolves and the
\* method that awaited it runs to its next await
StorageReplies ==
  /\ ops # << >>
  /\ LET op == Head(ops)
         rest == Tail(ops)
     IN IF op.kind = "get"
        THEN /\ IF op.key < 3
                THEN /\ ops' = Append(rest, GetItem(op.key + 1, Append(op.got, Item(op.key)), op.flow))
                     /\ UNCHANGED << records, blockedMessages, blockedCalls, allowed >>
                ELSE LoadResolves(op, rest)
             /\ UNCHANGED << storedRecords, storedMessages, storedCalls, timers >>
        ELSE /\ storedRecords' = IF op.key = 1 THEN op.val ELSE storedRecords
             /\ storedMessages' = IF op.key = 2 THEN op.val ELSE storedMessages
             /\ storedCalls' = IF op.key = 3 THEN op.val ELSE storedCalls
             /\ ops' = IF op.key = 1 THEN Append(rest, SetItem(2, blockedMessages, op.flow))
                       ELSE IF op.key = 2 THEN Append(rest, SetItem(3, blockedCalls, op.flow))
                       ELSE rest
             /\ timers' = IF op.key = 3 /\ op.flow = "blocked" THEN timers + 1 ELSE timers
             /\ UNCHANGED << records, blockedMessages, blockedCalls, allowed >>
  /\ UNCHANGED << now, coordinatorVars, contact, flowVars >>

\* variant: an attempt waits until no checkAndSendAlerts is under way
AskWaitsForAlerts(type) ==
  /\ \A e \in EvalIds : ~ InFlight(e)
  /\ LET r == cleanupOldRecords(storedRecords, now)
         ok == canCommunicate(r, contact, type, now)
     IN /\ allowed' = Answer(type, ok)
        /\ IF ok
           THEN /\ Len(r) <= MaxRecords
                /\ records' = Append(r, FrequencyRecord(contact.id, type, now))
                /\ blockedMessages' = storedMessages
                /\ blockedCalls' = storedCalls
                /\ UNCHANGED << storedMessages, storedCalls, timers >>
           ELSE /\ TotalBlocked < MaxBlocked
                /\ records' = r
                /\ IF type = "text" THEN storeBlockedMessage ELSE storeBlockedCall
                /\ onCommunicationBlocked
        /\ storedRecords' = records'
  /\ UNCHANGED << now, coordinatorVars, ops, contact, flowVars >>

\* sendTextMessage / makeCall run on their own: loadRecords with its cleanup
\* and save, canCommunicate, then recordCommunication, or storeBlockedMessage /
\* storeBlockedCall and onCommunicationBlocked
Ask(type) ==
  /\ LET r == cleanupOldRecords(storedRecords, now)
         ok == canCommunicate(r, contact, type, now)
     IN /\ allowed' = Answer(type, ok)
        /\ IF ok
           THEN /\ Len(r) <= MaxRecords
                /\ records' = Append(r, FrequencyRecord(contact.id, type, now))
                /\ blockedMessages' = storedMessages
                /\ blockedCalls' = storedCalls
                /\ UNCHANGED << storedMessages, storedCalls, timers >>
           ELSE /\ TotalBlocked < MaxBlocked
                /\ records' = r
                /\ IF type = "text" THEN storeBlockedMessage ELSE storeBlockedCall
                /\ onCommunicationBlocked
        /\ storedRecords' = records'
  /\ UNCHANGED << now, coordinatorVars, ops, contact, flowVars >>

AskText == Ask("text")
AskCall == Ask("call")

\* variant: the filter result is kept in this.records
canCommunicateNarrows(type) ==
  /\ allowed' = Answer(type, canCommunicate(records, contact, type, now))
  /\ records' = SelectSeq(records, LAMBDA r : SameContactAndKind(r, contact, type))
  /\ UNCHANGED << now, governorVars, coordinatorVars, timers, storedRecords, ops, contact, flowVars >>

\* canCommunicate called on the lists in memory: Array.filter builds new
\* arrays, nothing is assigned and nothing is saved
canCommunicateCalled(type) ==
  /\ allowed' = Answer(type, canCommunicate(records, contact, type, now))
  /\ UNCHANGED << now, governorVars, coordinatorVars, timers, records, storedRecords,
                  ops, contact, flowVars >>

QueryText == canCommunicateCalled("text")
QueryCall == canCommunicateCalled("call")

\* ------------------------------------------- the contact screen, await by await
\* getDefaultFrequencySettings: voicemailAllowed
DefaultVoicemailAllowed == 2

\* canLeaveVoicemail is called by makeCall; its body is not part of
\* FrequencyTracker.ts: blocked calls of the day against voicemailAllowance
canLeaveVoicemail(calls, t) == RecentCount(calls, t) <= DefaultVoicemailAllowed

\* variant: saveRecords lets the rejected setItem escape
saveRecordsRethrows == FALSE

\* the try / catch of saveRecords
saveRecordsCatches == TRUE

\* variant: the blocked branch has no `return'
fallsThroughAfterBlock == FALSE

\* the `return' that ends the blocked branch of sendTextMessage and makeCall
returnsAfterBlock == TRUE

\* variant: the blocked branch tells the user that the attempt was refused
blockedAlertRejects(type, voicemail) == "error"

\* the Alert of the blocked branch: 'Message Sent Successfully!' for a text,
\* 'Call Completed' with or without the voicemail sentence for a call
blockedAlert(type, voicemail) ==
  IF type = "text" THEN "sent"
  ELSE IF voicemail THEN "completed, voicemail"
  ELSE "completed"

\* the lists in memory after loadRecords: the three strings are read, then
\* parsed and assigned one after the other, so the first string that does not
\* parse ends the method with the remaining lists as they were; cleanupOldRecords
\* and its save run only when all three parsed
Loaded ==
  [ records |-> IF 1 \in corrupt THEN records
                ELSE IF corrupt = { } THEN cleanupOldRecords(storedRecords, now)
                ELSE storedRecords,
    blockedMessages |-> IF corrupt \cap {1, 2} # { } THEN blockedMessages ELSE storedMessages,
    blockedCalls |-> IF corrupt # { } THEN blockedCalls ELSE storedCalls,
    saved |-> corrupt = { } ]

\* saveRecords: three setItem calls one after the other, of which the first n
\* resolve; the rejection of the next one ends the method in its catch
saveRecords(n) ==
  /\ storedRecords' = IF n >= 1 THEN records ELSE storedRecords
  /\ storedMessages' = IF n >= 2 THEN blockedMessages ELSE storedMessages
  /\ storedCalls' = IF n >= 3 THEN blockedCalls ELSE storedCalls
  /\ corrupt' = corrupt \ (1 .. n)

\* sendTextMessage / makeCall from the press of the button to the first
\* setItem of recordCommunication, storeBlockedMessage or storeBlockedCall:
\* loadRecords, canCommunicate and the push
AttemptStarts(type) ==
  LET l == Loaded
      ok == canCommunicate(l.records, contact, type, now)
  IN /\ attempt.pc = "idle"
     /\ IF ok THEN Len(l.records) < MaxRecords /\ gateway.placed < MaxRecords
        ELSE Len(l.blockedMessages) + Len(l.blockedCalls) < MaxBlocked /\ timers < MaxBlocked
     /\ records' = IF ok THEN Append(l.records, FrequencyRecord(contact.id, type, now))
                   ELSE l.records
     /\ blockedMessages' = IF ~ ok /\ type = "text"
                           THEN Append(l.blockedMessages, BlockedRecord(now))
                           ELSE l.blockedMessages
     /\ blockedCalls' = IF ~ ok /\ type = "call"
                        THEN Append(l.blockedCalls, BlockedRecord(now))
                        ELSE l.blockedCalls
     /\ storedRecords' = IF l.saved THEN l.records ELSE storedRecords
     /\ allowed' = Answer(type, ok)
     /\ attempt' = [ pc |-> "saving", type |-> type, ok |-> ok, shown |-> "none" ]
     /\ UNCHANGED << now, coordinatorVars, timers, storedMessages, storedCalls, ops,
                     contact, gateway, corrupt, test, message >>

TextStarts == AttemptStarts("text")
CallStarts == AttemptStarts("call")

\* the saveRecords of the attempt returns after n setItem calls, and the flow
\* goes on: a blocked attempt arms the caregiver's timer and shows the Alert
\* of a completed attempt; an allowed one calls TwilioService.sendSMS /
\* makeCall, which throws without configuration and fetches otherwise
SaveReturns(n) ==
  /\ attempt.pc = "saving"
  /\ saveRecords(n)
  /\ IF n < 3 /\ ~ saveRecordsCatches
     THEN /\ attempt' = [ attempt EXCEPT !.pc = "done", !.shown = "error" ]
          /\ UNCHANGED << timers, gateway >>
     ELSE IF ~ attempt.ok /\ returnsAfterBlock
     THEN /\ onCommunicationBlocked
          /\ attempt' = [ attempt EXCEPT
                            !.pc = "done",
                            !.shown = blockedAlert(attempt.type,
                                                   canLeaveVoicemail(blockedCalls, now)) ]
          /\ UNCHANGED gateway
     ELSE IF ~ twilioConfigured
     THEN /\ attempt' = [ attempt EXCEPT !.pc = "done", !.shown = "error" ]
          /\ UNCHANGED << timers, gateway >>
     ELSE /\ attempt' = [ attempt EXCEPT !.pc = "gateway" ]
          /\ gateway' = [ gateway EXCEPT !.placed = @ + 1 ]
          /\ UNCHANGED timers
  /\ UNCHANGED << now, coordinatorVars, records, blockedMessages, blockedCalls, ops,
                  contact, allowed, test, message >>

SaveResolves == SaveReturns(3)
SaveRejects == \E n \in 0 .. 2 : SaveReturns(n)

\* Twilio answers the fetch with response.ok
GatewayAccepts ==
  /\ attempt.pc = "gateway"
  /\ gateway' = [ gateway EXCEPT !.carried = @ + 1 ]
  /\ attempt' = [ attempt EXCEPT !.pc = "done",
                                 !.shown = IF attempt.type = "text" THEN "sent" ELSE "started" ]
  /\ UNCHANGED << now, governorVars, coordinatorVars, timers, trackerVars, corrupt, test, message >>

\* the fetch rejects or Twilio answers with an error: sendSMS / makeCall throw
GatewayRejects ==
  /\ attempt.pc = "gateway"
  /\ attempt' = [ attempt EXCEPT !.pc = "done", !.shown = "error" ]
  /\ UNCHANGED << now, governorVars, coordinatorVars, timers, trackerVars, gateway, corrupt,
                  test, message >>

\* the user presses OK
AlertDismissed ==
  /\ attempt.pc = "done"
  /\ attempt' = IdleAttempt
  /\ UNCHANGED << now, governorVars, coordinatorVars, timers, trackerVars, gateway, corrupt,
                  test, message >>

\* loadRecords from its call to its return, with the save cleanupOldRecords
\* starts: the blocked lists are written back as they were read
loadRecordsRuns ==
  /\ records' = Loaded.records
  /\ blockedMessages' = Loaded.blockedMessages
  /\ blockedCalls' = Loaded.blockedCalls
  /\ storedRecords' = IF Loaded.saved THEN Loaded.records ELSE storedRecords
  /\ UNCHANGED << now, coordinatorVars, timers, storedMessages, storedCalls, ops, contact,
                  allowed, flowVars >>

\* ------------------------------------------------------- clear operations
\* the 'Clear' buttons are rendered once loadRecords has filled the lists
\* the screen shows and one of them is not empty
BlockedShown == blockedMessages # << >> \/ blockedCalls # << >>

\* the lists are assigned and saveRecords writes the three keys from memory
ClearedTo(messages, calls) ==
  /\ BlockedShown
  /\ blockedMessages' = messages
  /\ blockedCalls' = calls
  /\ storedRecords' = records
  /\ storedMessages' = messages
  /\ storedCalls' = calls
  /\ corrupt' = { }
  /\ UNCHANGED << now, coordinatorVars, timers, records, ops, contact, allowed, attempt,
                  gateway, test, message >>

\* variant: the blocked calls go with the blocked messages
clearBlockedMessagesAndCalls == ClearedTo(<< >>, << >>)

clearBlockedMessages == ClearedTo(<< >>, blockedCalls)

\* no screen calls clearBlockedCalls; it is taken where the other two are
clearBlockedCalls == ClearedTo(blockedMessages, << >>)

\* variant: clearing the lists puts the breaker back to 'ready'
clearAllBlockedRearms ==
  /\ BlockedShown
  /\ settings # 0
  /\ blockedMessages' = << >>
  /\ blockedCalls' = << >>
  /\ storedRecords' = records
  /\ storedMessages' = << >>
  /\ storedCalls' = << >>
  /\ corrupt' = { }
  /\ heap' = [ heap EXCEPT ![settings] = [ @ EXCEPT !.alertStatus = "ready" ] ]
  /\ stored' = << heap'[settings] >>
  /\ UNCHANGED << now, settings, ui, saves, evals, twilioConfigured, sent, fired, threw,
                  timers, records, ops, contact, allowed, attempt, gateway, test, message >>

clearAllBlocked == ClearedTo(<< >>, << >>)

\* ------------------------------------------------------------ the program
\* a configuration an earlier session stored through the settings screen
Config(ph, ne, sms, p, l2, q) ==
  [ getDefaultSettings EXCEPT !.phoneNumber = ph, !.notificationsEnabled = ne,
                              !.smsEnabled = sms, !.alertThreshold = p,
                              !.secondLevelEnabled = l2, !.secondLevelThreshold = q ]

\* the settings screen never stores a second level at or below the first
\* unless the first is raised afterwards
ValidConfigs(maxP, maxQ) ==
  { Config(ph, ne, TRUE, p, l2, q) :
      ph \in BOOLEAN, ne \in {TRUE}, l2 \in BOOLEAN,
      p \in 1 .. maxP, q \in 2 .. maxQ } 

\* no blocked record in memory or in the store
GovernorIdle ==
  /\ blockedMessages = << >>
  /\ blockedCalls = << >>
  /\ storedMessages = << >>
  /\ storedCalls = << >>

CoordinatorWith(configs) ==
  /\ heap = [ i \in ObjIds |-> getDefaultSettings ]
  /\ settings = 0
  /\ ui = 0
  /\ stored \in { << c >> : c \in { d \in configs : d.secondLevelThreshold > d.alertThreshold } }
  /\ saves = << >>
  /\ evals = [ e \in EvalIds |-> IdleEval ]
  /\ timers = 0
  /\ twilioConfigured \in IF stored[1].phoneNumber THEN BOOLEAN ELSE {TRUE}
  /\ sent = NoCount
  /\ fired = NoCount
  /\ threw = FALSE

InitWith(configs) == GovernorIdle /\ CoordinatorWith(configs)

\* no contact screen is open and the FrequencyTracker has no call in flight
TrackerIdle ==
  /\ records = << >>
  /\ storedRecords = << >>
  /\ ops = << >>
  /\ contact = NoContact
  /\ allowed = << >>
  /\ FlowIdle

\* the Alert Coordinator at rest, for the specifications of the FrequencyTracker
CoordinatorIdle == InitWith({ Config(FALSE, TRUE, TRUE, 1, FALSE, 2) })

Init == now = 1 /\ InitWith(ValidConfigs(MaxThreshold - 1, MaxThreshold)) /\ TrackerIdle

EvalStep == \E e \in EvalIds :
              Evaluate(e) \/ HandToGateway(e) \/ GatewayReplies(e)

\* blocked attempts, their timers and evaluations, and the reset of the
\* settings screen, interleaved at every await
Next ==
  \/ BlockedAttempt
  \/ TimerFires
  \/ EvalStep
  \/ SaveSettles
  \/ resetAlerts

Spec == Init /\ [][Next]_vars


\* ---------------------------------------------------------------------------
\* One Alert Coordinator operation at a time: an evaluation or a reset starts
\* only when no evaluation is in flight and no save is pending.  Blocked
\* attempts arrive at any moment.
Quiet == /\ \A e \in EvalIds : evals[e].pc = "idle"
         /\ saves = << >>

SeqTimerFires == Quiet /\ TimerFires
SeqCheck == Quiet /\ checkAndSendAlerts
SeqResetAlerts == Quiet /\ resetAlerts
SeqResetPrimary == Quiet /\ resetPrimaryAlert
SeqResetEscalation == Quiet /\ resetEscalationAlert

SeqNext ==
  \/ BlockedAttempt
  \/ SeqTimerFires
  \/ SeqCheck
  \/ EvalStep
  \/ SaveSettles
  \/ SeqResetAlerts
  \/ SeqResetPrimary
  \/ SeqResetEscalation

SeqSpec == Init /\ [][SeqNext]_vars

\* ---------------------------------------------------------------------------
\* The block scenario: notifications and escalation on, thresholds P < E,
\* every blocked attempt evaluated before the next one is made.
ScenarioConfigs ==
  { Config(TRUE, TRUE, TRUE, p, TRUE, q) :
      p \in 1 .. ScenarioMaxPrimary, q \in 2 .. ScenarioMaxEscalation }

ScenarioInit == now = 1 /\ InitWith(ScenarioConfigs) /\ twilioConfigured /\ TrackerIdle

ScenarioBlock == Quiet /\ timers = 0 /\ Blocked(ScenarioMaxEscalation + 1)

ScenarioNext ==
  \/ ScenarioBlock
  \/ TimerFires
  \/ EvalStep
  \/ SaveSettles

ScenarioSpec == ScenarioInit /\ [][ScenarioNext]_vars

\* ---------------------------------------------------------------------------
\* The caregiver at the settings screen, between evaluations.
EditLoad == Quiet /\ loadCaregiverSettings
EditUpdate == Quiet /\ updateCaregiverSettings

EditNext ==
  \/ BlockedAttempt
  \/ SeqTimerFires
  \/ EvalStep
  \/ SaveSettles
  \/ EditLoad
  \/ EditUpdate

EditSpec == Init /\ [][EditNext]_vars


\* ---------------------------------------------------------------------------
\* The caregiver at the settings screen while blocked attempts are evaluated:
\* the screen is mounted once and shows an edit before the next is made; the
\* edits interleave with the evaluations.
ScreenMounts == ui = 0 /\ loadCaregiverSettings

ScreenEdits ==
  /\ \A i \in 1 .. Len(saves) : saves[i].owner # -1
  /\ updateCaregiverSettings

ScreenNext ==
  \/ BlockedAttempt
  \/ TimerFires
  \/ EvalStep
  \/ SaveSettles
  \/ ScreenMounts
  \/ ScreenEdits

ScreenSpec == Init /\ [][ScreenNext]_vars


\* ---------------------------------------------------------------------------
\* One Alert Coordinator operation at a time, over a store whose setItem may
\* reject.
FailNext ==
  \/ BlockedAttempt
  \/ SeqTimerFires
  \/ SeqCheck
  \/ EvalStep
  \/ SaveSettles
  \/ SaveFails
  \/ SeqResetAlerts
  \/ SeqResetPrimary
  \/ SeqResetEscalation

FailSpec == Init /\ [][FailNext]_vars


\* ---------------------------------------------------------------------------
\* The FrequencyTracker await by await: a contact limited to one text and one
\* call, attempts of both kinds, and the evaluations' loadRecords.
LimitedContact ==
  Contact(1, << ContactFrequencySettings(FrequencySettings(1, 1, TRUE),
                                         FrequencySettings(1, 1, TRUE), << >>) >>)

TrackerInit ==
  /\ now = 1
  /\ CoordinatorIdle
  /\ records = << >>
  /\ storedRecords \in { << >>, << FrequencyRecord(1, "text", now) >> }
  /\ ops = << >>
  /\ contact = LimitedContact
  /\ allowed = << >>
  /\ FlowIdle

AttemptText == Attempt("text")
AttemptCall == Attempt("call")

TrackerNext ==
  \/ AttemptText
  \/ AttemptCall
  \/ TimerLoads
  \/ StorageReplies

TrackerSpec == TrackerInit /\ [][TrackerNext]_vars


\* ---------------------------------------------------------------------------
\* canCommunicate over stored histories: the contact, the time and the
\* records an earlier session left are drawn, then attempts are made.
Kinds == {"call", "text"}
Caps == {1, 2}

\* timestamps on both sides of the hourly and of the daily boundary
Stamps(t) == { t - DAY, t - DAY + 1, t - HOUR, t - HOUR + 1 }

RECURSIVE SeqsUpTo(_, _)
SeqsUpTo(set, n) ==
  IF n = 0 THEN { << >> }
  ELSE LET shorter == SeqsUpTo(set, n - 1)
       IN shorter \cup { Append(q, x) : q \in shorter, x \in set }

Histories(t) ==
  SeqsUpTo({ FrequencyRecord(id, type, ts) : id \in {1, 2}, type \in Kinds, ts \in Stamps(t) },
           MaxRecords)

HistoryContacts ==
  { NoContact } \cup
  { Contact(1, << ContactFrequencySettings(FrequencySettings(h, d, ce),
                                           FrequencySettings(h, d, te), q) >>) :
      h \in Caps, d \in Caps, ce \in BOOLEAN, te \in BOOLEAN,
      q \in { << >>, QuietHours(<< 9, 0 >>, << 17, 0 >>) } }

\* midnight and noon of the third day
HistoryTimes == { 2 * DAY, 2 * DAY + 12 * HOUR }

HistoryInit ==
  /\ now \in HistoryTimes
  /\ CoordinatorIdle
  /\ records = << >>
  /\ storedRecords \in Histories(now)
  /\ ops = << >>
  /\ contact \in HistoryContacts
  /\ allowed = << >>
  /\ FlowIdle

HistoryNext ==
  \/ AskText
  \/ AskCall

HistorySpec == HistoryInit /\ [][HistoryNext]_vars


\* ---------------------------------------------------------------------------
\* The sliding window: a contact with an hourly cap and a daily cap out of
\* reach, attempts made one after the other while time passes.
QuotaContacts ==
  { Contact(1, << ContactFrequencySettings(FrequencySettings(h, DefaultCallsMaxPerDay, TRUE),
                                           FrequencySettings(h, DefaultCallsMaxPerDay, TRUE),
                                           << >>) >>) : h \in 1 .. MaxPerHour }

QuotaInit ==
  /\ now = 0
  /\ CoordinatorIdle
  /\ records = << >>
  /\ storedRecords = << >>
  /\ ops = << >>
  /\ contact \in QuotaContacts
  /\ allowed = << >>
  /\ FlowIdle

\* d minutes pass
Passes(d) ==
  /\ now + d <= MaxMinutes
  /\ now' = now + d
  /\ UNCHANGED << governorVars, coordinatorVars, timers, trackerVars, flowVars >>

HalfHourPasses == Passes(30)
HalfHourAndOnePasses == Passes(31)

QuotaNext ==
  \/ AskText
  \/ AskCall
  \/ HalfHourPasses
  \/ HalfHourAndOnePasses

QuotaSpec == QuotaInit /\ [][QuotaNext]_vars


\* ---------------------------------------------------------------------------
\* Quiet hours: every minute of a day against windows that wrap midnight,
\* windows that do not, and windows of one minute.
ClockTimes == { << 0, 0 >>, << 6, 0 >>, << 9, 0 >>, << 17, 0 >>, << 22, 0 >>, << 23, 59 >> }

ClockContacts ==
  { Contact(1, << ContactFrequencySettings(FrequencySettings(1, 1, TRUE),
                                           FrequencySettings(1, 1, TRUE),
                                           QuietHours(start, end)) >>) :
      start \in ClockTimes, end \in ClockTimes }

ClockInit ==
  /\ now \in DAY .. 2 * DAY - 1
  /\ CoordinatorIdle
  /\ records = << >>
  /\ storedRecords = << >>
  /\ ops = << >>
  /\ contact \in ClockContacts
  /\ allowed = << >>
  /\ FlowIdle

ClockNext == AskText

ClockSpec == ClockInit /\ [][ClockNext]_vars


\* ---------------------------------------------------------------------------
\* Decision queries between attempts, over the stored histories: a contact
\* without quota, one with caps and quiet hours, one with texts unlimited.
QueryContacts ==
  { NoContact,
    Contact(1, << ContactFrequencySettings(FrequencySettings(1, 1, TRUE),
                                           FrequencySettings(1, 2, TRUE),
                                           QuietHours(<< 9, 0 >>, << 17, 0 >>)) >>),
    Contact(1, << ContactFrequencySettings(FrequencySettings(2, 2, TRUE),
                                           FrequencySettings(1, 1, FALSE), << >>) >>) }

QueryInit ==
  /\ now \in HistoryTimes
  /\ CoordinatorIdle
  /\ records = << >>
  /\ storedRecords \in Histories(now)
  /\ ops = << >>
  /\ contact \in QueryContacts
  /\ allowed = << >>
  /\ FlowIdle

QueryNext ==
  \/ AskText
  \/ AskCall
  \/ QueryText
  \/ QueryCall

QuerySpec == QueryInit /\ [][QueryNext]_vars

\* ---------------------------------------------------------------------------
\* The contact screen: texts and calls to a contact limited to one of each,
\* with a store whose writes can fail and a gateway that can refuse.
FlowInit ==
  /\ now = 1
  /\ InitWith({ Config(TRUE, TRUE, TRUE, 1, FALSE, 2) })
  /\ records = << >>
  /\ storedRecords \in { << >>, << FrequencyRecord(1, "text", 0) >> }
  /\ ops = << >>
  /\ contact \in { LimitedContact, NoContact }
  /\ allowed = << >>
  /\ FlowIdle

FlowNext ==
  \/ TextStarts
  \/ CallStarts
  \/ SaveResolves
  \/ SaveRejects
  \/ GatewayAccepts
  \/ GatewayRejects
  \/ AlertDismissed

FlowSpec == FlowInit /\ [][FlowNext]_vars

\* ---------------------------------------------------------------------------
\* loadRecords over what an earlier session left in the store: records on
\* both sides of the 24-hour boundary, blocked records a day old, and keys
\* whose string does not parse; the screens load again while minutes pass.
MaxTicks == 1

\* the lists a key can hold; a string that does not parse holds none
StoredItems(key, items) == IF key \in corrupt THEN { << >> } ELSE items

LoadInit ==
  /\ now = 2 * DAY
  /\ CoordinatorWith({ Config(FALSE, TRUE, TRUE, 1, FALSE, 2) })
  /\ attempt = IdleAttempt
  /\ gateway = [ placed |-> 0, carried |-> 0 ]
  /\ test = IdleTest
  /\ message = << >>
  /\ corrupt \in SUBSET {1, 2, 3}
  /\ records = << >>
  /\ blockedMessages = << >>
  /\ blockedCalls = << >>
  /\ storedRecords \in StoredItems(1, SeqsUpTo({ FrequencyRecord(1, type, ts) :
                                                   type \in Kinds, ts \in Stamps(now) },
                                               MaxRecords))
  /\ storedMessages \in StoredItems(2, { << >>, << BlockedRecord(now - DAY) >> })
  /\ storedCalls \in StoredItems(3, { << >>, << BlockedRecord(now - DAY) >> })
  /\ ops = << >>
  /\ contact = NoContact
  /\ allowed = << >>

MinutePasses ==
  /\ now < 2 * DAY + MaxTicks
  /\ now' = now + 1
  /\ UNCHANGED << governorVars, coordinatorVars, timers, trackerVars, flowVars >>

LoadNext ==
  \/ loadRecordsRuns
  \/ MinutePasses

LoadSpec == LoadInit /\ [][LoadNext]_vars

\* ---------------------------------------------------------------------------
\* The test alert: the settings screen is opened on a stored AlertState of any
\* status, with a caregiver phone number and Twilio configured, and 'Send
\* Test' is pressed once.
AlertStates ==
  { [ Config(TRUE, TRUE, TRUE, 1, l2, 2) EXCEPT
        !.alertStatus = st,
        !.primaryAlertSentAt = IF st = "ready" THEN NoTime ELSE 1,
        !.escalationAlertSentAt = IF st = "escalation-sent" THEN 1 ELSE NoTime ] :
      l2 \in BOOLEAN, st \in { "ready", "alert-sent", "escalation-sent" } }

TestInit ==
  /\ now = 2
  /\ CoordinatorWith(AlertStates)
  /\ twilioConfigured
  /\ blockedMessages = << >>
  /\ blockedCalls = << >>
  /\ storedMessages \in SeqsUpTo({ BlockedRecord(1) }, MaxBlocked)
  /\ storedCalls = << >>
  /\ TrackerIdle

TestNext ==
  \/ ScreenMounts
  \/ testNotification
  \/ TestChecks
  \/ EvalStep
  \/ SaveSettles
  \/ TestRestores
  \/ TestSent

TestSpec == TestInit /\ [][TestNext]_vars

\* ---------------------------------------------------------------------------
\* The hanging send: every alert handed to Twilio stays unanswered while the
\* user goes on texting and calling a contact limited to one of each.
HangInit ==
  /\ now = 1
  /\ InitWith({ Config(TRUE, TRUE, TRUE, 1, FALSE, 2) })
  /\ twilioConfigured
  /\ records = << >>
  /\ storedRecords \in { << >>, << FrequencyRecord(1, "text", 0) >> }
  /\ ops = << >>
  /\ contact = LimitedContact
  /\ allowed = << >>
  /\ FlowIdle

Evaluates == \E e \in EvalIds : Evaluate(e)
HandsToGateway == \E e \in EvalIds : HandToGateway(e)

HangNext ==
  \/ AskText
  \/ AskCall
  \/ TimerFires
  \/ Evaluates
  \/ HandsToGateway

HangSpec == HangInit /\ [][HangNext]_vars

\* ---------------------------------------------------------------------------
\* The violation list: an alert is composed over blocked texts and calls of
\* the last two days, shortly after midnight.
MaxViolations == 4

\* the clock at composition: ten past midnight on the third day
ViolationTime == 2 * DAY + 10

\* blocked attempts a day ago, late yesterday evening and in the last minutes
ViolationStamps == { ViolationTime - DAY, ViolationTime - DAY + 1, ViolationTime - 20,
                     ViolationTime - 3, ViolationTime - 2, ViolationTime - 1, ViolationTime }

\* the lists grow by push: timestamps ascend
BlockedLists ==
  { q \in SeqsUpTo({ BlockedRecord(ts) : ts \in ViolationStamps }, MaxViolations) :
      \A i \in 1 .. Len(q) - 1 : q[i].timestamp < q[i + 1].timestamp }

ViolationInit ==
  /\ now = ViolationTime
  /\ CoordinatorWith({ Config(TRUE, TRUE, TRUE, 1, FALSE, 2) })
  /\ storedMessages \in BlockedLists
  /\ storedCalls \in BlockedLists
  /\ blockedMessages = storedMessages
  /\ blockedCalls = storedCalls
  /\ TrackerIdle

ViolationNext == sendPrimaryAlert

ViolationSpec == ViolationInit /\ [][ViolationNext]_vars

\* ---------------------------------------------------------------------------
\* The caregiver clears blocked records between the attempts of the user: a
\* contact limited to one text and one call, a store an earlier session may
\* have left a record and blocked records in, and the screens' loadRecords.
ClearInit ==
  /\ now = 1
  /\ CoordinatorWith({ Config(FALSE, TRUE, TRUE, 1, FALSE, 2) })
  /\ blockedMessages = << >>
  /\ blockedCalls = << >>
  /\ storedMessages \in { << >>, << BlockedRecord(0) >> }
  /\ storedCalls \in { << >>, << BlockedRecord(0) >> }
  /\ records = << >>
  /\ storedRecords \in { << >>, << FrequencyRecord(1, "text", 0) >> }
  /\ ops = << >>
  /\ contact = LimitedContact
  /\ allowed = << >>
  /\ FlowIdle

ClearText == timers < MaxBlocked /\ AskText
ClearCall == timers < MaxBlocked /\ AskCall

ClearNext ==
  \/ ClearText
  \/ ClearCall
  \/ loadRecordsRuns
  \/ clearBlockedMessages
  \/ clearBlockedCalls
  \/ clearAllBlocked

ClearSpec == ClearInit /\ [][ClearNext]_vars

\* ---------------------------------------------------------------------------
\* The breaker over two days: blocked attempts, their evaluations and the
\* caregiver's reset one at a time, the clear operations, and the clock
\* moving in steps of twelve hours, with and without a second level.
MaxClock == 2161

BreakerConfigs == { Config(TRUE, TRUE, TRUE, 1, l2, 2) : l2 \in BOOLEAN }

BreakerInit == now = 1 /\ InitWith(BreakerConfigs) /\ twilioConfigured /\ TrackerIdle

HalfDayPasses ==
  /\ now + 12 * HOUR <= MaxClock
  /\ now' = now + 12 * HOUR
  /\ UNCHANGED << governorVars, coordinatorVars, timers, trackerVars, flowVars >>

BreakerBlock == timers < MaxBlocked /\ BlockedAttempt

BreakerNext ==
  \/ BreakerBlock
  \/ SeqTimerFires
  \/ EvalStep
  \/ SaveSettles
  \/ SeqResetAlerts
  \/ clearBlockedMessages
  \/ clearBlockedCalls
  \/ clearAllBlocked
  \/ HalfDayPasses

BreakerSpec == BreakerInit /\ [][BreakerNext]_vars

\* ---------------------------------------------------------------------------
\* Blocked attempts and their evaluations, interleaved at every await, with a
\* timer that fires, a store that answers and a gateway that answers: each
\* pending step is taken in the end.  The user may stop at any moment.
LiveNext ==
  \/ BlockedAttempt
  \/ TimerFires
  \/ EvalStep
  \/ SaveSettles

LiveSpec ==
  /\ Init
  /\ [][LiveNext]_vars
  /\ WF_vars(TimerFires)
  /\ WF_vars(SaveSettles)
  /\ \A e \in EvalIds :
       WF_vars(Evaluate(e)) /\ WF_vars(HandToGateway(e)) /\ WF_vars(GatewayReplies(e))

\* ---------------------------------------------------------------------------
\* Alerts that cannot be delivered: every combination of phone number, SMS
\* switch, second level and Twilio configuration, with blocked attempts,
\* evaluations and resets interleaved at every await.
SilentConfigs ==
  { Config(ph, TRUE, sms, 1, l2, 2) : ph \in BOOLEAN, sms \in BOOLEAN, l2 \in BOOLEAN }

SilentInit == now = 1 /\ InitWith(SilentConfigs) /\ TrackerIdle

SilentNext ==
  \/ BlockedAttempt
  \/ TimerFires
  \/ EvalStep
  \/ SaveSettles
  \/ resetAlerts

SilentSpec == SilentInit /\ [][SilentNext]_vars

\* ---------------------------------------------------------------------------
\* The escalation re-armed: an earlier session left the breaker at
\* 'escalation-sent'; blocked attempts, evaluations and resetEscalationAlert
\* follow, one Alert Coordinator operation at a time.  The status leaves
\* 'escalation-sent' through resetEscalationAlert only.
EscalatedStates == { a \in AlertStates : a.alertStatus = "escalation-sent" }

EscalatedInit ==
  /\ now = 2
  /\ CoordinatorWith(EscalatedStates)
  /\ blockedMessages = << >>
  /\ blockedCalls = << >>
  /\ storedMessages \in SeqsUpTo({ BlockedRecord(1) }, MaxBlocked)
  /\ storedCalls = << >>
  /\ TrackerIdle

EscalatedNext ==
  \/ BlockedAttempt
  \/ SeqTimerFires
  \/ SeqCheck
  \/ EvalStep
  \/ SaveSettles
  \/ SeqResetEscalation

EscalatedSpec == EscalatedInit /\ [][EscalatedNext]_vars

\* ---------------------------------------------------------------------------
\* The first load: an earlier version of the app left nothing, a string that
\* does not parse, or an object with some of the fields and an old or a new
\* status name under 'caregiver_notification_settings'; the settings screen is
\* opened or checkAndSendAlerts is called.
OldFields == << "phoneNumber", "notificationsEnabled", "smsEnabled", "alertThreshold",
                "secondLevelEnabled", "secondLevelThreshold", "alertStatus",
                "primaryAlertSentAt" >>

OldValues(f) ==
  CASE f = "phoneNumber" -> { TRUE }
    [] f = "notificationsEnabled" -> BOOLEAN
    [] f = "smsEnabled" -> BOOLEAN
    [] f = "alertThreshold" -> { 1 }
    [] f = "secondLevelEnabled" -> BOOLEAN
    [] f = "secondLevelThreshold" -> { 2 }
    [] f = "alertStatus" -> { "none", "level1-sent", "level2-sent",
                              "ready", "alert-sent", "escalation-sent" }
    [] f = "primaryAlertSentAt" -> { 1 }

WithField(o, f, v) == [ g \in DOMAIN o \cup { f } |-> IF g = f THEN v ELSE o[g] ]

\* the objects that hold some of the first n fields; the first is `{}'
RECURSIVE OldSettings(_)
OldSettings(n) ==
  IF n = 0 THEN { [ g \in { } |-> 0 ] }
  ELSE LET fewer == OldSettings(n - 1)
       IN fewer \cup { WithField(o, OldFields[n], v) : o \in fewer, v \in OldValues(OldFields[n]) }

MigrateInit ==
  /\ now = 2
  /\ heap = [ i \in ObjIds |-> getDefaultSettings ]
  /\ settings = 0
  /\ ui = 0
  /\ stored \in { << >>, << Garbled >> } \cup { << o >> : o \in OldSettings(Len(OldFields)) }
  /\ saves = << >>
  /\ evals = [ e \in EvalIds |-> IdleEval ]
  /\ timers = 0
  /\ twilioConfigured = TRUE
  /\ sent = NoCount
  /\ fired = NoCount
  /\ threw = FALSE
  /\ blockedMessages = << >>
  /\ blockedCalls = << >>
  /\ storedMessages \in SeqsUpTo({ BlockedRecord(1) }, MaxBlocked)
  /\ storedCalls = << >>
  /\ TrackerIdle

MigrateNext ==
  \/ ScreenMounts
  \/ SeqCheck
  \/ EvalStep
  \/ SaveSettles

MigrateSpec == MigrateInit /\ [][MigrateNext]_vars

\* ===========================================================================
\* Properties
\* ===========================================================================
StatusOf(level) == IF level = "escalation" THEN "escalation-sent" ELSE "alert-sent"

\* the step in which invocation e leaves `await loadRecords()' and decides
Decides(e) == evals[e].pc = "loadRecords" /\ evals'[e].pc # "loadRecords"

\* the step in which invocation e advances the status
Marks(e) == evals[e].pc \notin {"idle", "saving"} /\ evals'[e].pc = "saving"

Today == getTodayBlockedCount(storedMessages, storedCalls, now)

\* --- C1 --------------------------------------------------------------------
C1_AtMostOncePerLevel == \A l \in Levels : fired[l] <= 1 /\ sent[l] <= 1

C1_TrippedNoOp ==
  \A e \in EvalIds :
    (Decides(e) /\ S.alertStatus = "escalation-sent")
      => /\ evals'[e].pc = "idle"
         /\ UNCHANGED << heap, settings, stored, saves, sent, fired >>

\* C1: with evaluations and resets run one at a time, between two resets the
\* primary alert is sent at most once and the escalation alert at most once,
\* whatever the blocked count is, and an evaluation that finds the status
\* 'escalation-sent' sends nothing and leaves the AlertState as it is.
C1_TrippedBreaker == [] C1_AtMostOncePerLevel /\ [][C1_TrippedNoOp]_vars

\* both alerts were sent once, and a later evaluation found the breaker
\* tripped with the blocked count still at the escalation threshold
C1_Witness ==
  /\ settings # 0
  /\ S.alertStatus = "escalation-sent"
  /\ sent["primary"] = 1 /\ sent["escalation"] = 1
  /\ Today >= S.secondLevelThreshold
  /\ \E e \in EvalIds : evals[e].pc = "idle" /\ evals[e].seen = "escalation-sent"

\* --- C2 --------------------------------------------------------------------
\* C2: with evaluations in flight at once, the gateway receives at most one
\* primary message for one Ready -> PrimarySent transition and at most one
\* escalation message for one PrimarySent -> EscalationSent transition
\* (messages are counted from the last reset).
C2_OneSendPerTransition == sent["primary"] <= 1 /\ sent["escalation"] <= 1

\* --- C3 --------------------------------------------------------------------
C3_ReadyTakesPrimary ==
  \A e \in EvalIds :
    (InFlight(e) /\ evals[e].pc # "loadRecords" /\ evals[e].seen = "ready")
      => evals[e].level = "primary"

C3_ReadyStep ==
  \A e \in EvalIds :
    (Decides(e) /\ S.alertStatus = "ready") \/ evals[e].seen = "ready" =>
      /\ (evals[e].pc = "loadConfig" /\ evals'[e].pc # "loadConfig")
           => sent'["escalation"] = sent["escalation"]
      /\ Marks(e) => /\ heap'[settings].alertStatus = "alert-sent"
                     /\ heap'[settings].escalationAlertSentAt
                          = heap[settings].escalationAlertSentAt

\* C3: an evaluation that reads the status 'ready' takes the primary branch
\* only, also when the blocked count has reached the escalation threshold: it
\* hands no escalation message to the gateway and its assignment sets the
\* status to 'alert-sent', never to 'escalation-sent'.
C3_NoJumpToEscalation == [] C3_ReadyTakesPrimary /\ [][C3_ReadyStep]_vars

\* an evaluation read 'ready' with escalation enabled and the count at or
\* above both thresholds, and has set 'alert-sent'
C3_Witness ==
  \E e \in EvalIds :
    /\ evals[e].pc = "saving" /\ evals[e].seen = "ready"
    /\ S.secondLevelEnabled
    /\ evals[e].today >= S.secondLevelThreshold
    /\ S.secondLevelThreshold >= S.alertThreshold
    /\ S.alertStatus = "alert-sent"
    /\ sent["escalation"] = 0

\* --- C4 --------------------------------------------------------------------
\* C4: thresholds P < E, escalation on, one evaluation after each blocked
\* attempt: fewer than P blocks leave the status 'ready' with nothing sent;
\* from the P-th block on exactly one primary message has been sent and the
\* status is 'alert-sent'; from the E-th block on exactly one escalation
\* message has been sent too and the status is 'escalation-sent'.
C4_BlockScenario ==
  (Quiet /\ timers = 0 /\ settings # 0) =>
    LET n == TotalBlocked
        P == S.alertThreshold
        E == S.secondLevelThreshold
    IN /\ n < P => /\ S.alertStatus = "ready"
                   /\ sent["primary"] = 0 /\ sent["escalation"] = 0
       /\ (P <= n /\ n < E) => /\ S.alertStatus = "alert-sent"
                               /\ sent["primary"] = 1 /\ sent["escalation"] = 0
       /\ E <= n => /\ S.alertStatus = "escalation-sent"
                    /\ sent["primary"] = 1 /\ sent["escalation"] = 1

\* P = 5, E = 15, the 16th block has been evaluated
C4_Witness ==
  /\ Quiet /\ timers = 0 /\ settings # 0
  /\ S.alertThreshold = 5 /\ S.secondLevelThreshold = 15
  /\ TotalBlocked = 16
  /\ S.alertStatus = "escalation-sent"
  /\ sent["primary"] = 1 /\ sent["escalation"] = 1

\* --- C5 --------------------------------------------------------------------
\* C5: every pending timer of onCommunicationBlocked was armed within the
\* last second and will start one evaluation, so a burst of calls within one
\* debounce window leaves one pending timer, that is one evaluation.
C5_OneEvaluationPerBurst == timers <= 1

\* --- C6 --------------------------------------------------------------------
C6_RefiresOnce ==
  (settings # 0 /\ S.lastResetTimestamp # NoTime)
     => fired["primary"] <= 1 /\ sent["primary"] <= 1

C6_FirstAfterReset ==
  \A e \in EvalIds :
    /\ ( /\ Decides(e)
         /\ S.lastResetTimestamp # NoTime
         /\ fired["primary"] = 0 /\ fired["escalation"] = 0
         /\ Today >= S.alertThreshold )
       => /\ evals'[e].level = "primary"
          /\ fired'["primary"] = 1
    /\ (Marks(e) /\ evals'[e].level = "primary" /\ Deliverable(S) /\ twilioConfigured)
       => evals'[e].handed

\* C6: after resetAlerts, with the blocked count at or above the primary
\* threshold, the next evaluation takes the primary branch (and hands the
\* message to the gateway when delivery is configured); until another reset
\* no further evaluation sends a second primary alert.
C6_ResetRefiresPrimaryOnce == [] C6_RefiresOnce /\ [][C6_FirstAfterReset]_vars

\* after a reset the primary alert was sent again, and a further evaluation
\* has found 'alert-sent' and done nothing
C6_Witness ==
  /\ settings # 0
  /\ S.lastResetTimestamp # NoTime
  /\ S.alertStatus = "alert-sent"
  /\ sent["primary"] = 1
  /\ \E e \in EvalIds : evals[e].pc = "idle" /\ evals[e].seen = "alert-sent"

\* --- C7 --------------------------------------------------------------------
C7_FailedSendStep ==
  \A e \in EvalIds :
    /\ (evals[e].pc = "sending" /\ evals'[e].pc # "sending") => Marks(e)
    /\ (Marks(e) /\ evals'[e].outcome = "failed")
         => /\ heap'[settings].alertStatus = StatusOf(evals[e].level)
            /\ IF evals[e].level = "escalation"
               THEN heap'[settings].escalationAlertSentAt = now
               ELSE heap'[settings].primaryAlertSentAt = now
            /\ saves' = Append(saves, [ val |-> heap'[settings], obj |-> settings,
                                        owner |-> e ])
    /\ (evals[e].pc = "saving" /\ evals'[e].pc = "idle" /\ evals[e].outcome = "failed")
         => /\ stored' = << Head(saves).val >>
            /\ Head(saves).val.alertStatus = StatusOf(evals[e].level)

\* C7: when sendSMS fails, no exception leaves checkAndSendAlerts, and the
\* evaluation goes on to set the status of its level, stamp the matching
\* sentAt field and store that state, as after a successful send.
C7_FailedSendStillTrips == [] (threw = FALSE) /\ [][C7_FailedSendStep]_vars

\* an evaluation whose send failed has set its status and is saving it
C7_Witness ==
  \E e \in EvalIds :
    /\ evals[e].pc = "saving" /\ evals[e].outcome = "failed"
    /\ S.alertStatus = StatusOf(evals[e].level)

\* --- C8 --------------------------------------------------------------------
\* C8: while escalationThreshold <= primaryThreshold, no evaluation takes the
\* escalation branch, whatever the blocked count is.
C8_NoEscalationWhenMisconfigured ==
  (settings # 0 /\ S.secondLevelThreshold <= S.alertThreshold)
     => \A e \in EvalIds : evals[e].level # "escalation"

\* --- C9 --------------------------------------------------------------------
\* C9: primaryAlertSentAt is set exactly when the status is 'alert-sent' or
\* 'escalation-sent', and escalationAlertSentAt exactly when it is
\* 'escalation-sent'.
C9_TimestampsMatchStatus ==
  settings # 0 =>
    /\ (S.primaryAlertSentAt # NoTime)
         <=> (S.alertStatus \in {"alert-sent", "escalation-sent"})
    /\ (S.escalationAlertSentAt # NoTime) <=> (S.alertStatus = "escalation-sent")

\* --- C10 -------------------------------------------------------------------
\* C10: the status 'escalation-sent' implies that escalation is enabled and
\* that escalationThreshold > primaryThreshold, also after the caregiver has
\* edited the thresholds or the escalation toggle.
C10_EscalationSentImpliesConfig ==
  (settings # 0 /\ S.alertStatus = "escalation-sent")
     => S.secondLevelEnabled /\ S.secondLevelThreshold > S.alertThreshold


\* --- C11 -------------------------------------------------------------------
\* the step in which the setItem of a settings-screen save resolves
ScreenSaveSettles ==
  /\ saves # << >>
  /\ Head(saves).owner = -1
  /\ saves' = Tail(saves)

C11_StatusKept ==
  (settings # 0 /\ settings' # 0)
    => /\ heap'[settings'].alertStatus = S.alertStatus
       /\ heap'[settings'].primaryAlertSentAt = S.primaryAlertSentAt
       /\ heap'[settings'].escalationAlertSentAt = S.escalationAlertSentAt

\* C11: saving edited alert configuration from the settings screen never
\* changes alertStatus, primaryAlertSentAt or escalationAlertSentAt of the
\* service, also when an evaluation advanced the status after the screen
\* took the settings it saves.
C11_SavingConfigKeepsStatus == [][ScreenSaveSettles => C11_StatusKept]_vars

\* --- C12 -------------------------------------------------------------------
\* the step in which a timer of onCommunicationBlocked calls checkAndSendAlerts
\* while notificationsEnabled is false
C12_DisabledCall ==
  /\ timers' = timers - 1
  /\ ~ heap'[settings'].notificationsEnabled

\* C12: with notificationsEnabled false, checkAndSendAlerts returns at once:
\* nothing is handed to the gateway, no branch is taken, no save is started,
\* and alertStatus, the timestamps and the stored settings stay as they are,
\* whatever the status and the blocked count.
C12_DisabledIsNoOp ==
  [][ C12_DisabledCall =>
        /\ \A e \in EvalIds : evals'[e].pc = "idle"
        /\ UNCHANGED << stored, saves, sent, fired, governorVars >>
        /\ settings # 0 => heap'[settings'] = S ]_vars

C12_Witness ==
  /\ settings # 0
  /\ \E e \in EvalIds : evals[e].pc = "idle" /\ evals[e].outcome = "disabled"
  /\ ~ S.notificationsEnabled
  /\ S.alertStatus = "alert-sent"
  /\ S.secondLevelEnabled
  /\ Today >= S.secondLevelThreshold
  /\ sent["escalation"] = 0

\* --- C13 -------------------------------------------------------------------
\* the settings object a reset works on: this.settings, loaded first if null
Before == IF settings = 0 THEN loadSettings ELSE S

\* the step in which a reset calls saveSettings; tag 0, -2 or -3
CallsSave(tag) ==
  /\ Len(saves') = Len(saves) + 1
  /\ saves'[Len(saves')].owner = tag

\* the step in which the setItem of a reset's save resolves
ResetSaveSettles(tag) ==
  /\ saves # << >>
  /\ Head(saves).owner = tag
  /\ saves' = Tail(saves)

ConfigOf(s) == << s.phoneNumber, s.notificationsEnabled, s.smsEnabled,
                  s.alertThreshold, s.secondLevelEnabled, s.secondLevelThreshold >>

C13_ResetStep ==
  CallsSave(0) =>
    LET a == heap'[settings'] IN
      /\ a.alertStatus = "ready"
      /\ a.primaryAlertSentAt = NoTime
      /\ a.escalationAlertSentAt = NoTime
      /\ a.lastResetTimestamp = now
      /\ ConfigOf(a) = ConfigOf(Before)
      /\ saves'[Len(saves')].val = a

C13_ResetPersisted ==
  ResetSaveSettles(0) =>
    /\ stored' = << heap'[settings'] >>
    /\ stored'[1].alertStatus = "ready"
    /\ stored'[1].primaryAlertSentAt = NoTime
    /\ stored'[1].escalationAlertSentAt = NoTime
    /\ stored'[1].lastResetTimestamp # NoTime
    /\ ConfigOf(stored'[1]) = ConfigOf(stored[1])

\* C13: run on its own, resetAlerts from any status sets alertStatus to
\* 'ready', clears both sentAt timestamps, stamps lastResetTimestamp with the
\* current time and leaves the configuration fields alone; when its setItem
\* resolves exactly that state is stored.
C13_FullReset == [][C13_ResetStep /\ C13_ResetPersisted]_vars

\* resetAlerts has acted on a tripped breaker and its save is in flight
C13_Witness ==
  /\ Len(saves) = 1 /\ saves[1].owner = 0
  /\ S.alertStatus = "ready"
  /\ S.lastResetTimestamp = now
  /\ stored[1].alertStatus = "escalation-sent"
  /\ stored[1].escalationAlertSentAt # NoTime

\* --- C14 -------------------------------------------------------------------
C14_PrimaryStep ==
  /\ CallsSave(-2)
       => /\ Before.alertStatus = "alert-sent"
          /\ heap'[settings'] = [ Before EXCEPT !.alertStatus = "ready",
                                                 !.primaryAlertSentAt = NoTime ]
          /\ saves'[Len(saves')].val = heap'[settings']
  /\ (resetPrimaryAlert /\ Before.alertStatus # "alert-sent")
       => /\ heap'[settings'] = Before
          /\ UNCHANGED << stored, saves >>

C14_EscalationStep ==
  /\ CallsSave(-3)
       => /\ Before.alertStatus = "escalation-sent"
          /\ heap'[settings'] = [ Before EXCEPT !.alertStatus = "alert-sent",
                                                 !.escalationAlertSentAt = NoTime ]
          /\ heap'[settings'].primaryAlertSentAt # NoTime
          /\ saves'[Len(saves')].val = heap'[settings']
  /\ (resetEscalationAlert /\ Before.alertStatus # "escalation-sent")
       => /\ heap'[settings'] = Before
          /\ UNCHANGED << stored, saves >>

\* C14: run on its own, resetEscalationAlert acts only on 'escalation-sent'
\* (result 'alert-sent', escalationAlertSentAt cleared, primaryAlertSentAt
\* kept) and resetPrimaryAlert only on 'alert-sent' (result 'ready',
\* primaryAlertSentAt cleared); in any other status each changes no settings
\* field and starts no save.
C14_PartialResets == [][C14_PrimaryStep /\ C14_EscalationStep]_vars

\* resetEscalationAlert has stepped back from 'escalation-sent'
C14_Witness ==
  /\ Len(saves) = 1 /\ saves[1].owner = -3
  /\ S.alertStatus = "alert-sent"
  /\ S.escalationAlertSentAt = NoTime
  /\ S.primaryAlertSentAt # NoTime
  /\ stored[1].alertStatus = "escalation-sent"

\* --- C15 -------------------------------------------------------------------
\* C15: whenever no evaluation or reset is in flight and no save is pending,
\* the settings stored under 'caregiver_notification_settings' equal
\* this.settings, also after a setItem that rejected.
C15_StoredEqualsMemory == (Quiet /\ settings # 0) => stored = << S >>

\* --- C16 -------------------------------------------------------------------
C16_Kept(a, b) == Len(a) <= Len(b) /\ \A i \in 1 .. Len(a) : a[i] = b[i]

\* C16: no clear operation runs, so under every interleaving of loadRecords,
\* its un-awaited save, storeBlockedMessage, storeBlockedCall and
\* recordCommunication the blocked records in memory and the blocked records
\* in storage only grow: a record that was appended stays.
C16_BlockedRecordsKept ==
  [][ /\ C16_Kept(blockedMessages, blockedMessages')
      /\ C16_Kept(blockedCalls, blockedCalls')
      /\ C16_Kept(storedMessages, storedMessages')
      /\ C16_Kept(storedCalls, storedCalls') ]_vars

\* --- C17 -------------------------------------------------------------------
HasQuota == contact.frequencySettings # << >>

TypeSettings(type) == IF type = "call" THEN contact.frequencySettings[1].calls
                      ELSE contact.frequencySettings[1].texts

Unlimited(type) == ~ HasQuota \/ ~ TypeSettings(type).enabled

\* records of the contact and kind younger than `age' minutes
Younger(type, age) ==
  Cardinality({ i \in 1 .. Len(storedRecords) :
                  /\ storedRecords[i].contactId = contact.id
                  /\ storedRecords[i].type = type
                  /\ now - storedRecords[i].timestamp < age })

\* C17: for a contact without frequencySettings, and for a kind whose
\* sub-quota has enabled = false, canCommunicate answers true whatever the
\* stored records and the time of day are (quiet hours included).
C17_UnlimitedAlwaysAllowed ==
  /\ \A type \in Kinds :
        Unlimited(type) => canCommunicate(storedRecords, contact, type, now)
  /\ (allowed # << >> /\ Unlimited(allowed[1].type)) => allowed[1].ok

\* a text was allowed in quiet hours with the cap reached: texts are not
\* limited, calls are
C17_Witness ==
  /\ allowed = Answer("text", TRUE)
  /\ HasQuota
  /\ ~ TypeSettings("text").enabled
  /\ TypeSettings("call").enabled
  /\ isQuietHours(contact.frequencySettings[1], now)
  /\ Younger("text", HOUR) > TypeSettings("text").maxPerHour

\* --- C19 -------------------------------------------------------------------
\* the sub-quota of the kind is enabled and the time is outside quiet hours
Limited(type) ==
  /\ HasQuota
  /\ TypeSettings(type).enabled
  /\ ~ isQuietHours(contact.frequencySettings[1], now)

OwnRecords(type) ==
  SelectSeq(storedRecords, LAMBDA r : r.contactId = contact.id /\ r.type = type)

\* C19: for an enabled quota outside quiet hours canCommunicate answers true
\* exactly when fewer than maxPerHour records of the same contact and kind
\* are younger than one hour and fewer than maxPerDay are younger than 24
\* hours (a record exactly one hour or one day old is not counted); the
\* records of other contacts and of the other kind do not change the answer.
C19_AllowedIffUnderBothCaps ==
  \A type \in Kinds :
    Limited(type) =>
      /\ canCommunicate(storedRecords, contact, type, now)
           <=> /\ Younger(type, HOUR) < TypeSettings(type).maxPerHour
               /\ Younger(type, DAY) < TypeSettings(type).maxPerDay
      /\ canCommunicate(storedRecords, contact, type, now)
           = canCommunicate(OwnRecords(type), contact, type, now)
      /\ (allowed # << >> /\ allowed[1].type = type /\ allowed[1].ok)
           => Younger(type, HOUR) <= TypeSettings(type).maxPerHour

\* a call was allowed under a cap of one call per hour although a text of the
\* same contact and a call of another contact were recorded within the hour
C19_Witness ==
  /\ allowed = Answer("call", TRUE)
  /\ Limited("call")
  /\ TypeSettings("call").maxPerHour = 1
  /\ \E i \in 1 .. Len(storedRecords) :
        /\ storedRecords[i] = FrequencyRecord(contact.id, "text", now - HOUR + 1)
  /\ \E i \in 1 .. Len(storedRecords) :
        /\ storedRecords[i] = FrequencyRecord(2, "call", now - HOUR + 1)

\* --- C18 -------------------------------------------------------------------
C18_NeverOverCap ==
  \A type \in Kinds : Younger(type, HOUR) <= TypeSettings(type).maxPerHour

\* an attempt (time stands still): denied with maxPerHour records of the kind
\* younger than an hour, allowed with fewer
C18_AttemptStep ==
  (now' = now /\ allowed' # << >>)
    => LET type == allowed'[1].type
       IN allowed'[1].ok <=> Younger(type, HOUR) < TypeSettings(type).maxPerHour

\* C18: with an hourly cap H, the daily cap out of reach and no quiet hours,
\* an attempt is denied while H allowed records of the contact and kind are
\* younger than one hour and allowed again once the oldest of them is one
\* hour old; so no sliding hour ever holds more than H allowed records.
C18_SlidingHourlyWindow == [] C18_NeverOverCap /\ [][C18_AttemptStep]_vars

\* MaxPerHour texts at minute 0, a text denied before the hour is over, and
\* the next text allowed at minute 60
C18_Witness ==
  /\ TypeSettings("text").maxPerHour = MaxPerHour
  /\ Len(storedRecords) = MaxPerHour + 1
  /\ \A i \in 1 .. MaxPerHour : storedRecords[i] = FrequencyRecord(contact.id, "text", 0)
  /\ storedRecords[MaxPerHour + 1] = FrequencyRecord(contact.id, "text", HOUR)
  /\ storedMessages # << >>
  /\ allowed = Answer("text", TRUE)
  /\ now = HOUR

\* --- C20 -------------------------------------------------------------------
\* minutes since midnight of a time string and of a moment
MinutesOf(timeString) == timeString[1] * HOUR + timeString[2]
MinuteOfDay(t) == t % DAY

InWindow(start, end, t) ==
  IF MinutesOf(start) > MinutesOf(end)
  THEN MinuteOfDay(t) >= MinutesOf(start) \/ MinuteOfDay(t) <= MinutesOf(end)
  ELSE MinutesOf(start) <= MinuteOfDay(t) /\ MinuteOfDay(t) <= MinutesOf(end)

\* C20: isQuietHours holds exactly for the minutes of the window, both
\* boundary minutes included: from start through midnight to end when start is
\* later than end, from start to end otherwise (one minute when they are
\* equal); an attempt made inside the window is denied.
C20_QuietHoursMembership ==
  HasQuota =>
    LET fs == contact.frequencySettings[1]
        inside == InWindow(fs.quietHours[1].start, fs.quietHours[1].end, now)
    IN /\ isQuietHours(fs, now) <=> inside
       /\ (allowed # << >> /\ inside) => ~ allowed[1].ok

\* the first text at 06:00 sharp is denied by quiet hours 22:00-06:00
C20_Witness ==
  /\ HasQuota
  /\ contact.frequencySettings[1].quietHours = QuietHours(<< 22, 0 >>, << 6, 0 >>)
  /\ MinuteOfDay(now) = 6 * HOUR
  /\ storedRecords = << >>
  /\ allowed = Answer("text", FALSE)

\* --- C21 -------------------------------------------------------------------
\* the contact has a quiet-hours window and the local time is inside it
InQuietHours ==
  /\ HasQuota
  /\ contact.frequencySettings[1].quietHours # << >>
  /\ InWindow(contact.frequencySettings[1].quietHours[1].start,
              contact.frequencySettings[1].quietHours[1].end, now)

\* C21: while the local time is inside the contact's quiet-hours window
\* canCommunicate answers false for calls and for texts, whatever the records
\* are (none included), and every attempt made then is denied.
C21_QuietHoursDenyAll ==
  InQuietHours =>
    /\ \A type \in Kinds : ~ canCommunicate(storedRecords, contact, type, now)
    /\ allowed # << >> => ~ allowed[1].ok

\* C21 (amended): while the local time is inside the contact's quiet-hours
\* window canCommunicate answers false for every kind whose sub-quota is
\* enabled, whatever the records are (none included), and every attempt of
\* such a kind made then is denied.
C21_QuietHoursDenyEnabled ==
  InQuietHours =>
    /\ \A type \in Kinds :
          TypeSettings(type).enabled => ~ canCommunicate(storedRecords, contact, type, now)
    /\ (allowed # << >> /\ TypeSettings(allowed[1].type).enabled) => ~ allowed[1].ok

\* a call was denied at noon inside quiet hours 09:00-17:00 with no record
\* stored at all
C21_Witness ==
  /\ InQuietHours
  /\ TypeSettings("call").enabled
  /\ storedRecords = << >>
  /\ blockedCalls # << >>
  /\ allowed = Answer("call", FALSE)

\* --- C22 -------------------------------------------------------------------
\* a step that leaves the lists in memory and the three stored lists alone
C22_ListsUnchanged ==
  UNCHANGED << records, blockedMessages, blockedCalls,
               storedRecords, storedMessages, storedCalls >>

\* a call of canCommunicate: an answer is given and no attempt is recorded,
\* stored as blocked or announced to the caregiver
C22_Query == allowed' # << >> /\ records' = records /\ timers' = timers
             /\ blockedMessages' = blockedMessages /\ blockedCalls' = blockedCalls

C23_Created == Cardinality({ i \in 1 .. Len(records) : records[i].timestamp = now })

\* C23: once an attempt is over, every FrequencyRecord the call and text
\* flows created stands for an attempt that canCommunicate allowed and the
\* gateway carried out: an allowed attempt whose gateway call failed has left
\* no FrequencyRecord behind.
C23_RecordedOnlyIfCarriedOut ==
  attempt.pc \in {"idle", "done"} => C23_Created <= gateway.carried

\* --- C24 -------------------------------------------------------------------
\* canCommunicate has just answered false for the attempt that starts
C24_Denied == attempt.pc = "idle" /\ attempt'.pc = "saving" /\ ~ attempt'.ok

\* the step of a denied attempt: one blocked record of its kind is appended
\* to what loadRecords read, and the FrequencyRecords are the loaded ones
C24_DeniedStep ==
  C24_Denied =>
    /\ blockedMessages' = IF attempt'.type = "text"
                          THEN Append(storedMessages, BlockedRecord(now))
                          ELSE storedMessages
    /\ blockedCalls' = IF attempt'.type = "call"
                       THEN Append(storedCalls, BlockedRecord(now))
                       ELSE storedCalls
    /\ Len(blockedMessages') + Len(blockedCalls') = Len(storedMessages) + Len(storedCalls) + 1
    /\ records' = SelectSeq(storedRecords, LAMBDA r : r.timestamp > now - DAY)

\* while a denied attempt is under way nothing is sent to Twilio and no
\* FrequencyRecord is added
C24_NothingPlaced ==
  (attempt.pc # "idle" /\ ~ attempt.ok) =>
    /\ gateway' = gateway
    /\ records' = records
    /\ attempt'.pc # "gateway"

\* C24: an attempt that canCommunicate denies never reaches the Messaging
\* Gateway: no sendSMS / makeCall is issued for it, exactly one BlockedMessage
\* or BlockedCall is appended and no FrequencyRecord is.
C24_DeniedNeverReachesGateway == [][ C24_DeniedStep /\ C24_NothingPlaced ]_vars

\* the second call to a contact limited to one call was denied and is over:
\* Twilio has seen the first call only, one BlockedCall is in memory and the
\* only FrequencyRecord is the one of the first call
C24_Witness ==
  /\ attempt.pc = "done"
  /\ attempt.type = "call"
  /\ ~ attempt.ok
  /\ gateway = [ placed |-> 1, carried |-> 1 ]
  /\ Len(blockedCalls) = 1
  /\ blockedMessages = << >>
  /\ records = << FrequencyRecord(contact.id, "call", now) >>

C26_StoreReturns == attempt.pc = "saving" /\ ~ attempt.ok /\ attempt'.pc # "saving"

\* C26: storeBlockedMessage and storeBlockedCall return normally whether the
\* setItem calls resolve or reject: the caller goes on to
\* onCommunicationBlocked and to its Alert, and the record that was pushed is
\* still the last one of the list in memory.
C26_StoreNeverFails ==
  [][ C26_StoreReturns =>
        /\ attempt'.pc = "done"
        /\ attempt'.shown # "error"
        /\ timers' = timers + 1
        /\ blockedMessages' = blockedMessages
        /\ blockedCalls' = blockedCalls
        /\ LET list == IF attempt.type = "text" THEN blockedMessages' ELSE blockedCalls'
           IN list # << >> /\ list[Len(list)] = BlockedRecord(now) ]_vars

\* the first setItem of storeBlockedCall was rejected: the caller went on and
\* the BlockedCall is in memory and not in the store
C26_Witness ==
  /\ attempt.pc = "done"
  /\ attempt.type = "call"
  /\ ~ attempt.ok
  /\ timers = 1
  /\ Len(blockedCalls) = 1
  /\ storedCalls = << >>

\* --- C27 -------------------------------------------------------------------
\* the records of a list younger than 24 hours
C27_Pruned(list) == SelectSeq(list, LAMBDA r : r.timestamp > now - DAY)

\* C27: loadRecords always returns, and afterwards the list of a key that is
\* absent or does not parse is empty while the lists of the other keys hold
\* what is stored (the FrequencyRecords without those older than 24 hours).
C27_CorruptIsEmpty ==
  [][ loadRecordsRuns =>
        /\ records' = IF 1 \in corrupt THEN << >> ELSE C27_Pruned(storedRecords)
        /\ blockedMessages' = IF 2 \in corrupt THEN << >> ELSE storedMessages
        /\ blockedCalls' = IF 3 \in corrupt THEN << >> ELSE storedCalls ]_vars

\* --- C28 -------------------------------------------------------------------
\* memory and store agree and no FrequencyRecord is older than 24 hours
C28_Loaded ==
  /\ records = storedRecords
  /\ records = C27_Pruned(records)
  /\ blockedMessages = storedMessages
  /\ blockedCalls = storedCalls

\* C28: for a store whose three strings parse, loadRecords leaves in memory
\* exactly the stored FrequencyRecords with timestamp > now - 24h, the same
\* list in the store, and the blocked lists as stored, a day old or not; a
\* loadRecords that follows with no mutation and no clock advance in between
\* changes neither memory nor store.
C28_LoadPrunesAndIsIdempotent ==
  [][ (loadRecordsRuns /\ corrupt = { }) =>
        /\ records' = C27_Pruned(storedRecords)
        /\ storedRecords' = records'
        /\ blockedMessages' = storedMessages /\ storedMessages' = storedMessages
        /\ blockedCalls' = storedCalls /\ storedCalls' = storedCalls
        /\ C28_Loaded'
        /\ C28_Loaded => UNCHANGED << records, blockedMessages, blockedCalls,
                                      storedRecords, storedMessages, storedCalls >> ]_vars

\* a minute after the first load the second one has pruned the record that
\* had 24 hours less one minute and kept the younger one and the blocked
\* message that is older than a day
C28_Witness ==
  /\ corrupt = { }
  /\ now = 2 * DAY + 1
  /\ records = << FrequencyRecord(1, "text", 2 * DAY - HOUR) >>
  /\ storedRecords = records
  /\ blockedMessages = << BlockedRecord(DAY) >>
  /\ storedMessages = blockedMessages

\* --- C29 -------------------------------------------------------------------
\* C29: whatever the status of the AlertState, a test alert pressed with a
\* caregiver phone number configured hands exactly one alert message to the
\* gateway, and once it is over the stored alertThreshold is the one the
\* caregiver had set.
C29_TestForcesSend ==
  test.pc = "done" =>
    /\ sent["primary"] + sent["escalation"] = 1
    /\ stored[1].alertThreshold = heap[ui].alertThreshold
    /\ stored[1].alertThreshold = 1

\* --- C30 -------------------------------------------------------------------
\* an alert was handed to Twilio and sendSMS has not returned
C30_Hanging == \E e \in EvalIds : evals[e].pc = "sending"

\* the lists in memory and in the store, end to end
C30_Memory == records \o blockedMessages \o blockedCalls
C30_Store == storedRecords \o storedMessages \o storedCalls

\* while a send hangs the next text and the next call can be made
C30_CanStillWrite ==
  (C30_Hanging /\ Len(storedRecords) <= MaxRecords /\ TotalBlocked < MaxBlocked)
    => ENABLED AskText /\ ENABLED AskCall

\* an attempt made while a send hangs runs to its end: one record more, a
\* FrequencyRecord if it was allowed and a blocked record of its kind if
\* not, in memory and in the store
C30_WriteStep ==
  (C30_Hanging /\ (AskText \/ AskCall)) =>
    /\ records' = storedRecords' /\ blockedMessages' = storedMessages'
    /\ blockedCalls' = storedCalls'
    /\ Len(C30_Store') = Len(C30_Store) + 1
    /\ LET type == allowed'[1].type
           list == IF allowed'[1].ok THEN storedRecords'
                   ELSE IF type = "text" THEN storedMessages' ELSE storedCalls'
       IN /\ list # << >>
          /\ list[Len(list)] = IF allowed'[1].ok
                               THEN FrequencyRecord(contact.id, type, now)
                               ELSE BlockedRecord(now)

\* C30: a send to the Messaging Gateway that never returns does not hold up
\* the local writes: while it hangs, recordCommunication, storeBlockedMessage
\* and storeBlockedCall can still be called, complete and persist their record.
C30_HangDoesNotBlockWrites == [] C30_CanStillWrite /\ [][C30_WriteStep]_vars

\* the alert of the first blocked text hangs; the call made afterwards was
\* recorded and the second call was stored as blocked, both persisted
C30_Witness ==
  /\ evals[1].pc = "sending"
  /\ evals[1].today = 1
  /\ allowed = Answer("call", FALSE)
  /\ Len(storedMessages) = 1
  /\ Len(storedCalls) = 1
  /\ \E i \in 1 .. Len(storedRecords) : storedRecords[i] = FrequencyRecord(1, "call", now)

\* ---------------------------------------------------------------------------
\* C31: the violation list of an alert message has at most 5 entries, they
\* are the 5 most recent blocked calls and texts of the last 24 hours taken
\* together (all of them when fewer than 5 exist), most recent first.
C31_Recent ==
  { Violation("text", blockedMessages[i]) :
      i \in { j \in 1 .. Len(blockedMessages) : blockedMessages[j].timestamp > now - DAY } }
  \cup
  { Violation("call", blockedCalls[i]) :
      i \in { j \in 1 .. Len(blockedCalls) : blockedCalls[j].timestamp > now - DAY } }

C31_FiveMostRecentFirst ==
  message # << >> =>
    LET listed == message[1]
        shown == { listed[i] : i \in 1 .. Len(listed) }
    IN /\ Len(listed) <= 5
       /\ Len(listed) = IF Cardinality(C31_Recent) < 5 THEN Cardinality(C31_Recent) ELSE 5
       /\ Cardinality(shown) = Len(listed)
       /\ shown \subseteq C31_Recent
       /\ \A v \in C31_Recent \ shown : \A w \in shown : w.timestamp >= v.timestamp
       /\ \A i \in 1 .. Len(listed) - 1 : listed[i].timestamp >= listed[i + 1].timestamp

\* ---------------------------------------------------------------------------
\* C32: a clear operation empties its own collection only and persists at
\* once: clearBlockedMessages leaves blocked calls and FrequencyRecords as
\* they were, clearBlockedCalls leaves blocked messages and FrequencyRecords,
\* clearAllBlocked leaves FrequencyRecords, in memory and in the store, and
\* after each the stored collections equal the ones in memory.
C32_RecordsKept == records' = records /\ storedRecords' = storedRecords

C32_Persisted ==
  /\ storedRecords' = records'
  /\ storedMessages' = blockedMessages'
  /\ storedCalls' = blockedCalls'

C32_ClearsOnlyOwn ==
  [][ /\ clearBlockedMessages =>
           /\ blockedMessages' = << >>
           /\ blockedCalls' = blockedCalls /\ storedCalls' = storedCalls
           /\ C32_RecordsKept /\ C32_Persisted
      /\ clearBlockedCalls =>
           /\ blockedCalls' = << >>
           /\ blockedMessages' = blockedMessages /\ storedMessages' = storedMessages
           /\ C32_RecordsKept /\ C32_Persisted
      /\ clearAllBlocked =>
           /\ blockedMessages' = << >> /\ blockedCalls' = << >>
           /\ C32_RecordsKept /\ C32_Persisted ]_vars

\* the last attempt was a blocked text, and the blocked messages are gone
\* while a blocked call and the frequency records are still there
C32_Witness ==
  /\ allowed = Answer("text", FALSE)
  /\ blockedMessages = << >> /\ storedMessages = << >>
  /\ blockedCalls # << >> /\ storedCalls = blockedCalls
  /\ records # << >> /\ storedRecords = records

\* ---------------------------------------------------------------------------
\* C33: the todayBlocked an evaluation uses is the number of blocked messages
\* and blocked calls stamped strictly later than 24 hours ago: a blocked
\* record 24 hours old no longer counts toward the thresholds, and stays in
\* the stored list.
C33_Counted ==
  Cardinality({ i \in 1 .. Len(storedMessages) : now - storedMessages[i].timestamp < DAY }) +
  Cardinality({ i \in 1 .. Len(storedCalls) : now - storedCalls[i].timestamp < DAY })

C33_RollingWindow ==
  [][ \A e \in EvalIds :
        Evaluate(e) =>
          /\ evals'[e].level # "none" => evals'[e].today = C33_Counted
          /\ evals'[e].level = "primary" <=>
               (S.alertStatus = "ready" /\ C33_Counted >= S.alertThreshold)
          /\ storedMessages' = storedMessages
          /\ storedCalls' = storedCalls ]_vars

\* every timer has fired, the last evaluation found the breaker ready and
\* took no branch although the store holds enough blocked records, because
\* one of them is 24 hours old
C33_Witness ==
  /\ Quiet /\ timers = 0 /\ settings # 0
  /\ \E e \in EvalIds : evals[e].seen = "ready"
  /\ S.alertStatus = "ready"
  /\ TotalBlocked >= S.alertThreshold
  /\ C33_Counted < S.alertThreshold
  /\ \E i \in 1 .. Len(storedMessages) : now - storedMessages[i].timestamp = DAY

\* ---------------------------------------------------------------------------
\* C34: with notifications enabled and the breaker ready, once blocked
\* attempts have brought todayBlocked to the primary threshold the status
\* becomes 'alert-sent' in the end; and with the second level enabled and
\* todayBlocked at the escalation threshold, a blocked attempt whose timer is
\* pending while the status is 'alert-sent' leads to 'escalation-sent'.
C34_AlertState == IF settings = 0 THEN loadSettings ELSE S

C34_PrimaryDue ==
  /\ C34_AlertState.notificationsEnabled
  /\ C34_AlertState.alertStatus = "ready"
  /\ Today >= C34_AlertState.alertThreshold

C34_EscalationDue ==
  /\ C34_AlertState.notificationsEnabled
  /\ C34_AlertState.alertStatus = "alert-sent"
  /\ C34_AlertState.secondLevelEnabled
  /\ Today >= C34_AlertState.secondLevelThreshold
  /\ timers > 0

C34_AlertsInTheEnd ==
  /\ C34_PrimaryDue ~> (C34_AlertState.alertStatus = "alert-sent")
  /\ C34_EscalationDue ~> (C34_AlertState.alertStatus = "escalation-sent")

\* two blocked attempts have been evaluated and both levels have fired
C34_Witness ==
  /\ Quiet /\ timers = 0 /\ settings # 0
  /\ S.alertStatus = "escalation-sent"
  /\ TotalBlocked >= S.secondLevelThreshold
  /\ fired["primary"] = 1 /\ fired["escalation"] = 1

\* ---------------------------------------------------------------------------
\* C35: when the threshold guard of an evaluation holds but SMS is switched
\* off, no phone number is set or Twilio is not configured, nothing is handed
\* to the gateway and the status is advanced and stamped all the same.
C35_Due ==
  IF S.secondLevelEnabled /\ S.alertStatus = "alert-sent" /\ Today >= S.secondLevelThreshold
  THEN "escalation"
  ELSE IF S.alertStatus = "ready" /\ Today >= S.alertThreshold THEN "primary"
  ELSE "none"

C35_Tripped(level) ==
  /\ sent' = sent
  /\ heap'[settings'].alertStatus = StatusOf(level)
  /\ IF level = "primary" THEN heap'[settings'].primaryAlertSentAt = now
     ELSE heap'[settings'].escalationAlertSentAt = now
  /\ saves' # << >> /\ saves'[Len(saves')].val.alertStatus = StatusOf(level)

C35_TripsWithoutSending ==
  [][ \A e \in EvalIds :
        /\ (Evaluate(e) /\ C35_Due # "none" /\ ~ (S.smsEnabled /\ S.phoneNumber))
             => C35_Tripped(C35_Due)
        /\ (HandToGateway(e) /\ ~ twilioConfigured)
             => C35_Tripped(evals[e].level) ]_vars

\* the breaker is tripped and stored as tripped, and the gateway has seen
\* no message since the last reset
C35_Witness ==
  /\ Quiet /\ settings # 0
  /\ S.alertStatus = "alert-sent" /\ stored = << S >>
  /\ fired["primary"] = 1
  /\ sent["primary"] = 0 /\ sent["escalation"] = 0

\* ---------------------------------------------------------------------------
\* C36: the status of the breaker does not depend on the blocked records:
\* no clear operation and no passing of time changes it, a tripped status
\* goes back only in a reset, and while a level is tripped no evaluation
\* takes the branch of that level again, whatever is blocked afterwards.
C36_Status == IF settings = 0 THEN loadSettings.alertStatus ELSE S.alertStatus

C36_Clears == clearBlockedMessages \/ clearBlockedCalls \/ clearAllBlocked

C36_Rank(status) == CASE status = "ready" -> 0
                      [] status = "alert-sent" -> 1
                      [] status = "escalation-sent" -> 2

C37_State == IF settings = 0 THEN loadSettings ELSE S

C37_Rearmed ==
  [][ /\ (resetEscalationAlert /\ C37_State.alertStatus = "escalation-sent") =>
           /\ S'.alertStatus = "alert-sent"
           /\ S'.escalationAlertSentAt = NoTime
           /\ S'.secondLevelEnabled = C37_State.secondLevelEnabled
           /\ S'.secondLevelThreshold = C37_State.secondLevelThreshold
           /\ Today' = Today
      /\ \A e \in EvalIds :
           /\ ( /\ Evaluate(e)
                /\ S.alertStatus = "alert-sent"
                /\ S.secondLevelEnabled
                /\ Today >= S.secondLevelThreshold ) =>
                  /\ fired' = Bump(fired, "escalation")
                  /\ evals'[e].level = "escalation"
                  /\ evals'[e].pc \in { "loadConfig", "saving" }
           /\ ( /\ evals[e].pc # "saving"
                /\ evals'[e].pc = "saving"
                /\ evals'[e].level = "escalation" ) =>
                  /\ S'.alertStatus = "escalation-sent"
                  /\ S'.escalationAlertSentAt = now
                  /\ twilioConfigured => sent'["escalation"] = 1 ]_vars

\* the breaker found at 'escalation-sent' has been taken back by
\* resetEscalationAlert, and the evaluation after it has sent the escalation
\* message again and stored 'escalation-sent'
C37_Witness ==
  /\ Quiet /\ settings # 0
  /\ S.alertStatus = "escalation-sent"
  /\ stored[1].alertStatus = "escalation-sent"
  /\ stored[1].escalationAlertSentAt = now
  /\ S.secondLevelEnabled
  /\ Today >= S.secondLevelThreshold
  /\ fired = [ primary |-> 0, escalation |-> 1 ]
  /\ sent = [ primary |-> 0, escalation |-> 1 ]

\* ---------------------------------------------------------------------------
\* C38: when the test alert has completed ('Test Sent' is shown), alertStatus,
\* primaryAlertSentAt and escalationAlertSentAt of this.settings and of the
\* stored settings are what they were when 'Send Test' was pressed, and so is
\* alertThreshold: from 'ready' the next evaluation at the threshold takes
\* the primary branch.
C38_Breaker(s) == << s.alertStatus, s.primaryAlertSentAt, s.escalationAlertSentAt >>

C38_BreakerAsFound ==
  test.pc = "done" =>
    /\ settings # 0
    /\ C38_Breaker(S) = C38_Breaker(test.found[1])
    /\ C38_Breaker(stored[1]) = C38_Breaker(test.found[2])
    /\ test.found[1].alertStatus = "ready" =>
         /\ S.alertThreshold = test.found[1].alertThreshold
         /\ AlertBranch(S, S.alertThreshold) = "primary"
         /\ AlertBranch(stored[1], stored[1].alertThreshold) = "primary"

\* a test alert pressed at 'ready' has handed its message to the gateway and
\* 'Test Sent' is shown
C38_Witness ==
  /\ test.pc = "done"
  /\ test.found[1].alertStatus = "ready"
  /\ test.found[2].alertStatus = "ready"
  /\ sent["primary"] = 1
  /\ fired["primary"] = 1
  /\ saves = << >>

\* ---------------------------------------------------------------------------
\* C39: the step that loads the settings ends with an AlertState in memory and
\* nothing thrown.  With nothing stored or a string that does not parse it is
\* the default: no phone number, notifications off, SMS on, alertThreshold 5,
\* second level off, secondLevelThreshold 15, status 'ready', no timestamp.
\* A stored status 'none', 'level1-sent' or 'level2-sent' is loaded as
\* 'ready', 'alert-sent' or 'escalation-sent', and each of notificationsEnabled,
\* smsEnabled, alertThreshold, secondLevelEnabled, secondLevelThreshold and
\* alertStatus that the stored object lacks has its default value.
C39_Default ==
  [ phoneNumber           |-> FALSE,
    notificationsEnabled  |-> FALSE,
    smsEnabled            |-> TRUE,
    alertThreshold        |-> 5,
    secondLevelEnabled    |-> FALSE,
    secondLevelThreshold  |-> 15,
    alertStatus           |-> "ready",
    lastResetTimestamp    |-> NoTime,
    primaryAlertSentAt    |-> NoTime,
    escalationAlertSentAt |-> NoTime ]

C39_Defaulted == { "notificationsEnabled", "smsEnabled", "alertThreshold",
                   "secondLevelEnabled", "secondLevelThreshold", "alertStatus" }

C39_Renamed(old) == CASE old = "none" -> "ready"
                      [] old = "level1-sent" -> "alert-sent"
                      [] old = "level2-sent" -> "escalation-sent"
                      [] OTHER -> old

C39_LoadedOrDefault ==
  [][ (settings = 0 /\ settings' # 0) =>
        /\ threw' = FALSE
        /\ IF stored = << >> THEN S' = C39_Default
           ELSE IF stored[1] = Garbled THEN S' = C39_Default
           ELSE /\ "alertStatus" \in DOMAIN stored[1] =>
                     S'.alertStatus = C39_Renamed(stored[1].alertStatus)
                /\ \A f \in C39_Defaulted \ DOMAIN stored[1] : S'[f] = C39_Default[f] ]_vars

\* an object stored with the old status name 'level1-sent' and without
\* smsEnabled and the second level has been loaded
C39_Witness ==
  /\ settings # 0
  /\ stored # << >>
  /\ DOMAIN stored[1] = { "phoneNumber", "notificationsEnabled", "alertThreshold", "alertStatus" }
  /\ stored[1].alertStatus = "level1-sent"
  /\ S.alertStatus = "alert-sent"
  /\ S.smsEnabled
  /\ ~ S.secondLevelEnabled
  /\ S.secondLevelThreshold = 15
  /\ S.alertThreshold = 1

\* ---------------------------------------------------------------------------
\* C40: no two blocked messages share an id and no two blocked calls share an
\* id, in memory and in the store.
C40_Distinct(list) ==
  \A i, j \in 1 .. Len(list) : i # j => list[i].id # list[j].id

C40_UniqueIds ==
  /\ C40_Distinct(blockedMessages)
  /\ C40_Distinct(blockedCalls)
  /\ C40_Distinct(storedMessages)
  /\ C40_Distinct(storedCalls)

=============================================================================
